---- MODULE Spec2Model ----
(***************************************************************************)
(* State-machine model of the last-dance-keno package: the simple          *)
(* historical scraper, the single-strategy tracker, the live tracker and   *)
(* the multi-strategy tracker, with the 8x10 Keno board and the seven-rule *)
(* elimination engine they share.                                          *)
(*                                                                         *)
(* Conventions.  A date string "MM/DD/YY" is the triple <<MM, DD, YY>>.    *)
(* An identity key "{game_id}_{date}" is the pair <<game_id, date>>.       *)
(* An Optional value is a sequence: <<>> is None, <<x>> is x.              *)
(* A text (file field) is a sequence of one-character strings.             *)
(***************************************************************************)
EXTENDS Integers, Sequences, FiniteSets, TLC

\* ------------------------------------------------------------------ bounds
MaxBatch == 2        \* longest list handed to check_and_save_new_games
MaxPageLen == 2      \* most entries on one page of the historical site
MaxGamesArg == 2     \* largest max_games handed to fetch_historical_deep
MaxPagesArg == 3     \* largest max_pages handed to fetch_historical_deep
MaxHist == 5         \* longest draw history handed to the rule engines
MaxPredictions == 3  \* most predictions a KenoTracker files
MaxScores == 2       \* most scores a KenoTracker files

\* -------------------------------------------------------- program constants
ROWS == 8
COLS == 10
BALLS_DRAWN == 20
EMPTY_PAGE_LIMIT == 3

\* ------------------------------------------------------------------- state
VARIABLES
    component,      \* the program that runs: "scraper", "tracker", "live",
                    \* "multi", "hybrid", "telegram", or a harness applying
                    \* pure functions ("rules", "board", "vacuum")
    \* SimpleKenoScraper
    seen_games,     \* .seen_games: set of identity keys
    last_game_id,   \* .last_game_id
    games_csv,      \* keno_data/games.csv: [exists, rows]
    state_file,     \* keno_data/scraper_state.json: [last_game_id, seen_games]
    driver,         \* TRUE while a browser session is held
    page_source,    \* driver.page_source as the running fetch parses it
                    \* (<<>> while no fetch runs: nothing reads it then)
    clicks,         \* back-button clicks made since the last driver.get
    pc,             \* "idle", or "deep" inside fetch_historical_deep's loop
    deep,           \* locals of the running fetch_historical_deep
    ret,            \* the last call and what it returned
    \* KenoTracker, KenoLiveTracker, KenoMultiStrategy (the live and the
    \* multi-strategy tracker keep seen_games, last_game_id, games_csv and
    \* state_file in the files and attributes the scraper uses)
    self_games,     \* .games: the draws held in memory
    predictions,    \* .predictions
    scores,         \* .scores
    predictions_csv,\* keno_data/predictions.csv: rows of field texts
    scores_csv,     \* keno_data/scores.csv or strategy_scores.csv
    result,         \* the last tracker call and what it returned
    \* rule-engine harness
    hist,           \* a draw history, most recent first
    out,            \* the last engine applied to hist and its result
    \* HybridGameSource
    games_df,       \* .games_df: the rows loaded, sorted by datetime
    state,          \* .state: [last_game_id, manual_entries]
    source_state,   \* keno_data/source_state.json: None, or the state saved
    called,         \* the last call of the source and what it returned
    delivered,      \* the draws a consumer polling check_for_updates has
                    \* been handed so far, in the order it got them
    \* main() of simple_keno_scraper, keno_live_tracker, keno_multi_strategy
    entry           \* the running entry point: its program, mode and
                    \* position, the session it holds, the driver.quit() calls

scraper_vars == <<seen_games, last_game_id, games_csv, state_file, driver,
                  page_source, clicks, pc, deep, ret>>
tracker_vars == <<self_games, predictions, scores, predictions_csv, scores_csv, result>>
rules_vars == <<hist, out>>
hybrid_vars == <<games_df, state, source_state, called, delivered>>
entry_vars == <<entry>>

vars == <<component, scraper_vars, tracker_vars, rules_vars, hybrid_vars, entry_vars>>

\* what each program leaves alone
not_scraper == <<component, tracker_vars, rules_vars, hybrid_vars, entry_vars>>
not_rules == <<component, scraper_vars, tracker_vars, hybrid_vars, entry_vars>>
not_tracker == <<component, rules_vars, hybrid_vars, entry_vars, driver, page_source, clicks, pc,
                 deep, ret>>
not_hybrid == <<component, scraper_vars, tracker_vars, rules_vars, entry_vars>>
not_entry == <<component, scraper_vars, tracker_vars, rules_vars, hybrid_vars>>

\* ------------------------------------------------------------ input domain
D1 == <<1, 1, 24>>
D2 == <<6, 1, 24>>
Dates == {D1, D2}
Ids == {1, 2}

\* Draw outcomes used as inputs: two draws with at most 3 hits per row and
\* per column, one with rows 1-5 holding 4 hits each, one with rows 6-8
\* holding 4 hits each.
DrawA == {2, 5, 9, 11, 12, 16, 23, 27, 28, 31, 37, 39, 41, 44, 47, 59, 62, 65, 68, 74}
DrawB == {4, 16, 17, 19, 21, 33, 34, 35, 45, 46, 50, 52, 53, 54, 62, 69, 70, 75, 76, 77}
DrawC == {1, 2, 3, 4, 15, 16, 17, 18, 21, 22, 29, 30, 33, 34, 35, 36, 45, 46, 47, 48}
DrawD == {51, 52, 53, 54, 65, 66, 67, 68, 71, 72, 79, 80, 5, 19, 23, 37, 41, 10, 26, 44}
Catalogue == {DrawA, DrawC, DrawD}

NumbersOf(game_id, date) ==
    IF date = D1 THEN (IF game_id = 1 THEN DrawA ELSE DrawD)
                 ELSE (IF game_id = 1 THEN DrawC ELSE DrawB)

Game(game_id, date) ==
    [game_id |-> game_id, date |-> date, numbers |-> NumbersOf(game_id, date)]

Games == {Game(i, d) : i \in Ids, d \in Dates}

\* ------------------------------------------------------------ small helpers
None == <<>>
Some(x) == <<x>>

SeqsUpTo(S, n) == UNION {[1..k -> S] : k \in 0..n}

Range(s) == {s[i] : i \in 1..Len(s)}

Take(s, n) == SubSeq(s, 1, IF Len(s) < n THEN Len(s) ELSE n)

IsPrefix(s, t) == Len(s) <= Len(t) /\ SubSeq(t, 1, Len(s)) = s

\* a key that leaves the date out
unique_key_by_id(game) == <<game.game_id, <<0, 0, 0>>>>

\* unique_key = f"{game_id}_{date}"
unique_key(game) == <<game.game_id, game.date>>

\* ======================================================================
\* Simple historical scraper (simple_keno_scraper.py)
\* ======================================================================
\* A link of the historical page whose row does not yield 20 numbers.
BadEntry == [game_id |-> 1, date |-> D1, numbers |-> {7}]
\* The draws the historical site lists: game_id 1 on two dates.
SiteGames == {Game(1, D1), Game(1, D2)}
Entries == SiteGames \cup {BadEntry}
Pages == SeqsUpTo(Entries, MaxPageLen)

\* _parse_historical_entry: a record only when 20 unique numbers were found
parse_historical_entry(link) ==
    IF Cardinality(link.numbers) = BALLS_DRAWN THEN Some(link) ELSE None

\* _write_game_to_csv: append one row, creating the file (with its header)
write_game_to_csv(csv, game) ==
    [exists |-> TRUE, rows |-> Append(csv.rows, game)]

\* _save_state
save_state(last, seen) == [last_game_id |-> last, seen_games |-> seen]

\* a variant that forgets to record the key of a row it has written
RECURSIVE save_loop_unmarked(_, _, _)
save_loop_unmarked(games, i, st) ==
    IF i > Len(games) THEN st
    ELSE LET game == games[i]
             key == unique_key(game)
         IN IF key \notin st.seen
            THEN save_loop_unmarked(games, i + 1,
                     [seen |-> st.seen,
                      last |-> IF game.game_id > st.last THEN game.game_id ELSE st.last,
                      csv |-> write_game_to_csv(st.csv, game),
                      new_count |-> st.new_count + 1])
            ELSE save_loop_unmarked(games, i + 1, st)

\* check_and_save_new_games, the loop over the candidates from position i on;
\* st = [seen, last, csv, new_count]
RECURSIVE save_loop(_, _, _)
save_loop(games, i, st) ==
    IF i > Len(games) THEN st
    ELSE LET game == games[i]
             key == unique_key(game)
         IN IF key \notin st.seen
            THEN save_loop(games, i + 1,
                     [seen |-> st.seen \cup {key},
                      last |-> IF game.game_id > st.last THEN game.game_id ELSE st.last,
                      csv |-> write_game_to_csv(st.csv, game),
                      new_count |-> st.new_count + 1])
            ELSE save_loop(games, i + 1, st)

check_and_save_new_games(games, seen, last, csv) ==
    save_loop(games, 1, [seen |-> seen, last |-> last, csv |-> csv, new_count |-> 0])

\* fetch_historical_page, the loop over the links: games not in seen_games
RECURSIVE page_loop(_, _, _)
page_loop(links, i, seen) ==
    IF i > Len(links) THEN <<>>
    ELSE LET gd == parse_historical_entry(links[i])
         IN IF gd # None /\ unique_key(gd[1]) \notin seen
            THEN <<gd[1]>> \o page_loop(links, i + 1, seen)
            ELSE page_loop(links, i + 1, seen)

\* a variant that checks the collected set only through seen_games
RECURSIVE deep_links_no_local(_, _, _, _)
deep_links_no_local(links, i, seen, st) ==
    IF i > Len(links) THEN st
    ELSE LET gd == parse_historical_entry(links[i])
         IN IF gd = None THEN deep_links_no_local(links, i + 1, seen, st)
            ELSE LET key == unique_key(gd[1])
                 IN IF key \in seen
                    THEN deep_links_no_local(links, i + 1, seen,
                             [st EXCEPT !.page_already_seen = @ + 1])
                    ELSE deep_links_no_local(links, i + 1, seen,
                             [st EXCEPT !.all_games = Append(@, gd[1]),
                                        !.collected_keys = @ \cup {key},
                                        !.page_new = @ + 1])

\* fetch_historical_deep, the loop over the links of one page;
\* st = [all_games, collected_keys, page_new, page_duplicates, page_already_seen]
RECURSIVE deep_links(_, _, _, _)
deep_links(links, i, seen, st) ==
    IF i > Len(links) THEN st
    ELSE LET gd == parse_historical_entry(links[i])
         IN IF gd = None THEN deep_links(links, i + 1, seen, st)
            ELSE LET key == unique_key(gd[1])
                 IN IF key \in st.collected_keys
                    THEN deep_links(links, i + 1, seen,
                             [st EXCEPT !.page_duplicates = @ + 1])
                    ELSE IF key \in seen
                    THEN deep_links(links, i + 1, seen,
                             [st EXCEPT !.page_already_seen = @ + 1])
                    ELSE deep_links(links, i + 1, seen,
                             [st EXCEPT !.all_games = Append(@, gd[1]),
                                        !.collected_keys = @ \cup {key},
                                        !.page_new = @ + 1])

\* a variant that counts only the entries already in seen_games
page_all_known_seen_only(st, links) ==
    st.page_already_seen = Len(links) /\ Len(links) > 0

\* "elif page_duplicates + page_already_seen == len(game_links) and
\*  len(game_links) > 0": every link of the page is a known draw
page_all_known(st, links) ==
    st.page_duplicates + st.page_already_seen = Len(links) /\ Len(links) > 0

DeepIdle == [max_games |-> 0, max_pages |-> 0, all_games |-> <<>>,
             collected_keys |-> {}, consecutive_empty |-> 0, page_num |-> 0]

Ret(op, games, count) == [op |-> op, games |-> games, count |-> count]

ScraperInit ==
    /\ seen_games = {}
    /\ last_game_id = 0
    /\ games_csv = [exists |-> FALSE, rows |-> <<>>]
    /\ state_file = save_state(0, {})
    /\ driver \in (IF component = "scraper" THEN BOOLEAN ELSE {FALSE})
    /\ page_source = <<>>
    /\ clicks = 0
    /\ pc = "idle"
    /\ deep = DeepIdle
    /\ ret = Ret("init", <<>>, 0)

\* check_and_save_new_games(games)
CheckAndSave ==
    /\ component = "scraper"
    /\ pc = "idle"
    /\ UNCHANGED not_scraper
    /\ \E games \in SeqsUpTo(SiteGames, MaxBatch) :
       \E st \in {check_and_save_new_games(games, seen_games, last_game_id, games_csv)} :
            /\ seen_games' = st.seen
            /\ last_game_id' = st.last
            /\ games_csv' = st.csv
            /\ state_file' = IF st.new_count > 0 THEN save_state(st.last, st.seen)
                             ELSE state_file
            /\ ret' = Ret("save", games, st.new_count)
    /\ UNCHANGED <<driver, page_source, clicks, pc, deep>>

\* fetch_historical_page()
FetchPage ==
    /\ component = "scraper"
    /\ pc = "idle"
    /\ UNCHANGED not_scraper
    /\ IF ~driver
       THEN /\ ret' = Ret("page", <<>>, 0)
            /\ UNCHANGED <<page_source, clicks>>
       ELSE \/ /\ ret' = Ret("page", <<>>, 0)      \* driver.get raised
               /\ UNCHANGED <<page_source, clicks>>
            \/ \E page \in Pages :
               /\ page_source' = <<>>
               /\ clicks' = 0
               /\ ret' = Ret("page", page_loop(page, 1, seen_games), 0)
    /\ UNCHANGED <<seen_games, last_game_id, games_csv, state_file, driver, pc, deep>>

\* fetch_historical_deep(max_games, max_pages) up to the first loop iteration
DeepBegin ==
    /\ component = "scraper"
    /\ pc = "idle"
    /\ UNCHANGED not_scraper
    /\ \E mg \in 1..MaxGamesArg, mp \in 1..MaxPagesArg :
       IF ~driver
       THEN /\ ret' = Ret("deep", <<>>, mg)
            /\ UNCHANGED <<page_source, clicks, pc, deep>>
       ELSE \/ /\ ret' = Ret("deep", <<>>, mg)     \* driver.get raised
               /\ UNCHANGED <<page_source, clicks, pc, deep>>
            \/ \E page \in Pages :
                 /\ page_source' = page
                 /\ clicks' = 0
                 /\ pc' = "deep"
                 /\ deep' = [DeepIdle EXCEPT !.max_games = mg, !.max_pages = mp]
                 /\ ret' = Ret("scanning", <<>>, mg)
    /\ UNCHANGED <<seen_games, last_game_id, games_csv, state_file, driver>>

\* the return of fetch_historical_deep
DeepReturn(all_games) ==
    /\ pc' = "idle"
    /\ page_source' = <<>>
    /\ deep' = DeepIdle
    /\ ret' = Ret("deep", all_games, deep.max_games)

\* one iteration of "for page_num in range(max_pages)", navigation included
DeepIter ==
    /\ component = "scraper"
    /\ pc = "deep"
    /\ UNCHANGED not_scraper
    /\ UNCHANGED <<seen_games, last_game_id, games_csv, state_file, driver>>
    /\ IF Len(deep.all_games) >= deep.max_games
       THEN /\ DeepReturn(deep.all_games)
            /\ UNCHANGED clicks
       ELSE
       LET st == deep_links(page_source, 1, seen_games,
                     [all_games |-> deep.all_games,
                      collected_keys |-> deep.collected_keys,
                      page_new |-> 0, page_duplicates |-> 0, page_already_seen |-> 0])
           all_known == st.page_new = 0 /\ page_all_known(st, page_source)
           empties == IF st.page_new > 0 THEN 0
                      ELSE IF all_known THEN deep.consecutive_empty
                      ELSE deep.consecutive_empty + 1
           stop == all_known \/ (st.page_new = 0 /\ empties >= EMPTY_PAGE_LIMIT)
       IN IF stop
          THEN /\ DeepReturn(st.all_games)
               /\ UNCHANGED clicks
          ELSE \/ /\ DeepReturn(deep.all_games)      \* reading the page raised
                  /\ UNCHANGED clicks
               \/ /\ DeepReturn(st.all_games)        \* no back button, or it raised
                  /\ UNCHANGED clicks
               \/ /\ clicks' = clicks + 1
                  /\ IF deep.page_num + 1 >= deep.max_pages
                     THEN DeepReturn(st.all_games)
                     ELSE \E page \in Pages :
                            /\ page_source' = page
                            /\ pc' = "deep"
                            /\ deep' = [deep EXCEPT
                                          !.all_games = st.all_games,
                                          !.collected_keys = st.collected_keys,
                                          !.consecutive_empty = empties,
                                          !.page_num = @ + 1]
                            /\ UNCHANGED ret

\* get_current_game_id(): None without a session or on any failure
CurrentIds == {None} \cup {Some(i) : i \in Ids}

\* run_once that fetches the historical page whatever the live page shows
run_once_always_fetching(current_id, page, seen, last, csv, file) ==
    LET hist_games == page_loop(page, 1, seen)
        st == check_and_save_new_games(hist_games, seen, last, csv)
    IN [fetched |-> TRUE, seen |-> st.seen, last |-> st.last, csv |-> st.csv,
        state_file |-> IF st.new_count > 0 THEN save_state(st.last, st.seen) ELSE file,
        new_count |-> st.new_count]

\* run_once() with the live page showing current_id (None: not read) and the
\* historical page showing `page`: [fetched, seen, last, csv, state_file,
\* new_count], new_count being the value returned
run_once(current_id, page, seen, last, csv, file) ==
    IF current_id # None /\ current_id[1] = last
    THEN [fetched |-> FALSE, seen |-> seen, last |-> last, csv |-> csv,
          state_file |-> file, new_count |-> 0]
    ELSE LET hist_games == page_loop(page, 1, seen)
             st == check_and_save_new_games(hist_games, seen, last, csv)
         IN [fetched |-> TRUE, seen |-> st.seen, last |-> st.last, csv |-> st.csv,
             state_file |-> IF st.new_count > 0 THEN save_state(st.last, st.seen)
                            ELSE file,
             new_count |-> st.new_count]

\* run_once()
RunOnce ==
    /\ component = "scraper"
    /\ pc = "idle"
    /\ UNCHANGED not_scraper
    /\ \E current_id \in (IF driver THEN CurrentIds ELSE {None}) :
       \E page \in (IF driver THEN Pages ELSE {<<>>}) :
       \E st \in {run_once(current_id, page, seen_games, last_game_id, games_csv,
                           state_file)} :
            /\ page_source' = IF st.fetched THEN <<>> ELSE page_source
            /\ clicks' = IF st.fetched THEN 0 ELSE clicks
            /\ seen_games' = st.seen
            /\ last_game_id' = st.last
            /\ games_csv' = st.csv
            /\ state_file' = st.state_file
            /\ ret' = Ret("run_once", <<>>, st.new_count)
    /\ UNCHANGED <<driver, pc, deep>>

\* run_once(), what the live page and the historical page showed being kept
\* with what it returned
RunOnceShown ==
    /\ component = "scraper"
    /\ pc = "idle"
    /\ UNCHANGED not_scraper
    /\ \E current_id \in (IF driver THEN CurrentIds ELSE {None}) :
       \E page \in (IF driver THEN Pages ELSE {<<>>}) :
       \E st \in {run_once(current_id, page, seen_games, last_game_id, games_csv,
                           state_file)} :
            /\ page_source' = IF st.fetched THEN <<>> ELSE page_source
            /\ clicks' = IF st.fetched THEN 0 ELSE clicks
            /\ seen_games' = st.seen
            /\ last_game_id' = st.last
            /\ games_csv' = st.csv
            /\ state_file' = st.state_file
            /\ ret' = [op |-> "run_once", games |-> page, count |-> st.new_count,
                       current_id |-> current_id]
    /\ UNCHANGED <<driver, pc, deep>>

\* ======================================================================
\* The seven elimination rules, three times
\* ======================================================================
Min(a, b) == IF a < b THEN a ELSE b
Max(a, b) == IF a > b THEN a ELSE b
Numbers == 1..80

\* keno_tracker.py / keno_live_tracker.py board helpers
get_row(num) == ((num - 1) \div 10) + 1
get_col(num) == ((num - 1) % 10) + 1
get_neighbors(num) ==
    {(r - 1) * 10 + c :
        r \in Max(1, get_row(num) - 1)..Min(ROWS, get_row(num) + 1),
        c \in Max(1, get_col(num) - 1)..Min(COLS, get_col(num) + 1)}
    \ {num}

\* keno_multi_strategy.py board helpers (0-based row and column)
rc(n) == <<(n - 1) \div COLS, (n - 1) % COLS>>
to_num(r, c) == (r * COLS) + c + 1

\* a neighbourhood that is not clipped at the edges of the board
ms_get_neighbors_unclipped(n) ==
    LET r == rc(n)[1]
        c == rc(n)[2]
    IN {to_num(r + d[1], c + d[2]) :
          d \in {e \in {-1, 0, 1} \X {-1, 0, 1} : e[1] # 0 \/ e[2] # 0}}

ms_get_neighbors(n) ==
    LET r == rc(n)[1]
        c == rc(n)[2]
    IN {to_num(r + d[1], c + d[2]) :
          d \in {e \in {-1, 0, 1} \X {-1, 0, 1} :
                   /\ (e[1] # 0 \/ e[2] # 0)
                   /\ 0 <= r + e[1] /\ r + e[1] < ROWS
                   /\ 0 <= c + e[2] /\ c + e[2] < COLS}}

\* list.sort(key=...): a stable sort, here by insertion.  key maps an
\* element to a pair <<a, b>> compared lexicographically.
KeyLE(k1, k2) == k1[1] < k2[1] \/ (k1[1] = k2[1] /\ k1[2] <= k2[2])

\* The element at position i of s lands behind every element with a smaller
\* key and behind the earlier elements with an equal key.
StableSort(s, key) ==
    LET keyed == {<<key[s[i]], i>> : i \in 1..Len(s)}
        Before(a, b) == ~KeyLE(b[1], a[1]) \/ (a[1] = b[1] /\ a[2] < b[2])
        placed == {<<Cardinality({a \in keyed : Before(a, b)}) + 1, s[b[2]]>> :
                     b \in keyed}
    IN [p \in 1..Len(s) |-> (CHOOSE r \in placed : r[1] = p)[2]]

\* [x for x in range(1, 81) if x in S]: the members of S in ascending order
Ascending(S) ==
    LET placed == {<<Cardinality({m \in S : m < n}) + 1, n>> : n \in S}
    IN [p \in 1..Cardinality(S) |-> (CHOOSE r \in placed : r[1] = p)[2]]

\* ---- KenoTracker (keno_tracker.py)
calculate_hits(games, num, last_n) ==
    Cardinality({i \in 1..Min(last_n, Len(games)) : num \in games[i].numbers})

hit_in_specific_games(games, num, positions) ==
    \E pos \in positions : pos <= Len(games) /\ num \in games[pos].numbers

hit_count_in_specific_games(games, num, positions) ==
    Cardinality({pos \in positions : pos <= Len(games) /\ num \in games[pos].numbers})

has_touching_neighbor_hit(games, num, game_position) ==
    IF game_position > Len(games) THEN FALSE
    ELSE get_neighbors(num) \cap games[game_position].numbers # {}

row_hits(games, game_position, row) ==
    IF game_position > Len(games) THEN 0
    ELSE Cardinality({n \in games[game_position].numbers : get_row(n) = row})

col_hits(games, game_position, col) ==
    IF game_position > Len(games) THEN 0
    ELSE Cardinality({n \in games[game_position].numbers : get_col(n) = col})

is_row_col_hot(games, num, last_n, threshold) ==
    \E i \in 1..Min(last_n, Len(games)) :
        \/ row_hits(games, i, get_row(num)) >= threshold
        \/ col_hits(games, i, get_col(num)) >= threshold

kt_remove_reasons(games, num) ==
    (IF hit_in_specific_games(games, num, {1, 2}) THEN {"hit_last_2"} ELSE {})
    \cup (IF hit_count_in_specific_games(games, num, {1, 2, 3}) >= 2
          THEN {"hit_2_of_3"} ELSE {})
    \cup (IF hit_count_in_specific_games(games, num, 1..8) >= 4
          THEN {"hit_4_of_8"} ELSE {})
    \cup (IF calculate_hits(games, num, 10) >= 6 THEN {"hit_6_of_10"} ELSE {})
    \cup (IF hit_in_specific_games(games, num, {1, 3, 4})
          THEN {"pattern_1_3_4"} ELSE {})
    \cup (IF is_row_col_hot(games, num, 3, 4) THEN {"row_col_hot"} ELSE {})
    \cup (IF ~has_touching_neighbor_hit(games, num, 1)
          THEN {"no_neighbor_hit"} ELSE {})

kt_get_playable_numbers(games) ==
    IF Len(games) = 0 THEN Ascending(Numbers)
    ELSE LET playable == Ascending({n \in Numbers : kt_remove_reasons(games, n) = {}})
             key == [n \in Numbers |->
                        <<0 - (IF Len(games) >= 50 THEN calculate_hits(games, n, 50)
                               ELSE calculate_hits(games, n, Len(games))),
                          calculate_hits(games, n, 10)>>]
         IN StableSort(playable, key)

\* ---- KenoLiveTracker (keno_live_tracker.py)
lt_hits_in_n(games, num, n) ==
    Cardinality({i \in 1..Min(n, Len(games)) : num \in games[i].numbers})

lt_hit_in_positions(games, num, positions) ==
    \E pos \in positions : pos <= Len(games) /\ num \in games[pos].numbers

lt_hit_count_positions(games, num, positions) ==
    Cardinality({pos \in positions : pos <= Len(games) /\ num \in games[pos].numbers})

lt_has_neighbor_hit(games, num, position) ==
    IF position > Len(games) THEN FALSE
    ELSE get_neighbors(num) \cap games[position].numbers # {}

lt_is_row_col_hot(games, num, last_n, threshold) ==
    \E i \in 1..Min(last_n, Len(games)) :
        \/ Cardinality({n \in games[i].numbers : get_row(n) = get_row(num)}) >= threshold
        \/ Cardinality({n \in games[i].numbers : get_col(n) = get_col(num)}) >= threshold

lt_reasons(games, num) ==
    (IF lt_hit_in_positions(games, num, {1, 2}) THEN {"last2"} ELSE {})
    \cup (IF lt_hit_count_positions(games, num, {1, 2, 3}) >= 2 THEN {"2of3"} ELSE {})
    \cup (IF lt_hit_count_positions(games, num, 1..8) >= 4 THEN {"4of8"} ELSE {})
    \cup (IF lt_hits_in_n(games, num, 10) >= 6 THEN {"6of10"} ELSE {})
    \cup (IF lt_hit_in_positions(games, num, {1, 3, 4}) THEN {"pattern134"} ELSE {})
    \cup (IF lt_is_row_col_hot(games, num, 3, 4) THEN {"rowcol_hot"} ELSE {})
    \cup (IF ~lt_has_neighbor_hit(games, num, 1) THEN {"no_neighbor"} ELSE {})

\* remove_reasons as returned: the numbers holding at least one reason
lt_remove_reasons(games) ==
    IF Len(games) = 0 THEN {}
    ELSE {n \in Numbers : lt_reasons(games, n) # {}}

lt_get_playable_numbers(games) ==
    IF Len(games) = 0 THEN Ascending(Numbers)
    ELSE LET key == [n \in Numbers |->
                        <<0 - lt_hits_in_n(games, n, 50), lt_hits_in_n(games, n, 10)>>]
         IN StableSort(Ascending(Numbers \ lt_remove_reasons(games)), key)

\* ---- KenoMultiStrategy.strategy_elimination (keno_multi_strategy.py)
ms_hits_in_n(games, num, n) ==
    Cardinality({i \in 1..Min(n, Len(games)) : num \in games[i].numbers})

ms_hit_in_positions(games, num, positions) ==
    \E pos \in positions : pos <= Len(games) /\ num \in games[pos].numbers

ms_has_neighbor_hit(games, num, position) ==
    IF position > Len(games) THEN FALSE
    ELSE ms_get_neighbors(num) \cap games[position].numbers # {}

ms_is_row_col_hot(games, num, last_n, threshold) ==
    \E i \in 1..Min(last_n, Len(games)) :
        \/ Cardinality({n \in games[i].numbers : rc(n)[1] = rc(num)[1]}) >= threshold
        \/ Cardinality({n \in games[i].numbers : rc(n)[2] = rc(num)[2]}) >= threshold

\* the body of "for num in range(1, 81)": TRUE when a "continue" is taken
ms_skipped(games, num) ==
    \/ ms_hit_in_positions(games, num, {1, 2})
    \/ Cardinality({i \in 1..Min(3, Len(games)) : num \in games[i].numbers}) >= 2
    \/ ms_hits_in_n(games, num, 8) >= 4
    \/ ms_hits_in_n(games, num, 10) >= 6
    \/ ms_hit_in_positions(games, num, {1, 3, 4})
    \/ ms_is_row_col_hot(games, num, 3, 4)
    \/ ~ms_has_neighbor_hit(games, num, 1)

strategy_elimination(games) ==
    IF Len(games) = 0 THEN Ascending(Numbers)
    ELSE LET remove == {n \in Numbers : ~ms_skipped(games, n)}
             key == [n \in Numbers |->
                        <<0 - ms_hits_in_n(games, n, 50), ms_hits_in_n(games, n, 10)>>]
         IN Take(StableSort(Ascending(Numbers \ remove), key), 20)

\* ---- harness: a history built one draw at a time, the engines applied to it
Out(fn, outcome, calls) == [fn |-> fn, result |-> outcome, calls |-> calls]

RulesInit ==
    /\ hist = <<>>
    /\ out = Out("none", <<>>, 0)

\* no entry point runs
EntryIdle ==
    entry = [program |-> "none", mode |-> "none", pc |-> "main", driver |-> FALSE,
             quits |-> 0, cycles |-> 0, errors |-> 0, event |-> "none"]

\* no HybridGameSource has been constructed
SourceIdle ==
    /\ games_df = <<>>
    /\ state = [last_game_id |-> 0, manual_entries |-> <<>>]
    /\ source_state = <<>>
    /\ called = [op |-> "none", arg |-> <<>>, value |-> <<>>]
    /\ delivered = <<>>

\* a new draw becomes the most recent one
PushDraw ==
    /\ component = "rules"
    /\ Len(hist) < MaxHist
    /\ \E d \in Catalogue : hist' = <<[numbers |-> d]>> \o hist
    /\ out' = Out("none", <<>>, 0)
    /\ UNCHANGED not_rules

\* an engine is applied to a history once, or twice in a row
MayCall(fn) == out.fn = "none" \/ (out.fn = fn /\ out.calls < 2)
Calls(fn) == IF out.fn = fn THEN out.calls + 1 ELSE 1

\* a variant that consumes the most recent draw while it computes
TrackerPlayable_consuming ==
    /\ component = "rules"
    /\ MayCall("tracker")
    /\ out' = Out("tracker", kt_get_playable_numbers(hist), Calls("tracker"))
    /\ hist' = IF hist = <<>> THEN hist ELSE Tail(hist)
    /\ UNCHANGED not_rules

\* KenoTracker.get_playable_numbers() on the history
TrackerPlayable ==
    /\ component = "rules"
    /\ MayCall("tracker")
    /\ out' = Out("tracker", kt_get_playable_numbers(hist), Calls("tracker"))
    /\ UNCHANGED hist
    /\ UNCHANGED not_rules

\* KenoLiveTracker.get_playable_numbers() on the history
LivePlayable ==
    /\ component = "rules"
    /\ MayCall("live")
    /\ out' = Out("live", lt_get_playable_numbers(hist), Calls("live"))
    /\ UNCHANGED hist
    /\ UNCHANGED not_rules

\* KenoMultiStrategy.strategy_elimination() on the history
MultiElimination ==
    /\ component = "rules"
    /\ MayCall("multi")
    /\ out' = Out("multi", strategy_elimination(hist), Calls("multi"))
    /\ UNCHANGED hist
    /\ UNCHANGED not_rules

\* ======================================================================
\* Texts: str, int, join, split and the csv field layer
\* ======================================================================
DigitChars == <<"0", "1", "2", "3", "4", "5", "6", "7", "8", "9">>
IsDigit(c) == \E d \in 1..10 : DigitChars[d] = c
DigitValue(c) == (CHOOSE d \in 1..10 : DigitChars[d] = c) - 1

\* str(n), n >= 0
RECURSIVE str(_)
str(n) ==
    IF n < 10 THEN <<DigitChars[n + 1]>>
    ELSE str(n \div 10) \o <<DigitChars[(n % 10) + 1]>>

\* str.strip(): int() ignores blanks around the digits
strip(text) ==
    LET keep == {i \in 1..Len(text) : text[i] # " "}
    IN IF keep = {} THEN <<>>
       ELSE SubSeq(text, CHOOSE i \in keep : \A j \in keep : i <= j,
                         CHOOSE i \in keep : \A j \in keep : i >= j)

RECURSIVE digits_value(_)
digits_value(t) ==
    IF Len(t) = 0 THEN 0
    ELSE digits_value(SubSeq(t, 1, Len(t) - 1)) * 10 + DigitValue(t[Len(t)])

\* int(text) of a text of digits, blanks, commas and brackets;
\* None stands for the ValueError int() raises
int(text) ==
    LET t == strip(text)
    IN IF Len(t) > 0 /\ \A i \in 1..Len(t) : IsDigit(t[i])
       THEN Some(digits_value(t))
       ELSE None

\* sep.join(texts)
RECURSIVE join(_, _)
join(sep, texts) ==
    IF Len(texts) = 0 THEN <<>>
    ELSE IF Len(texts) = 1 THEN texts[1]
    ELSE texts[1] \o sep \o join(sep, Tail(texts))

\* ','.join(map(str, nums))
join_numbers(nums) == join(<<",">>, [k \in 1..Len(nums) |-> str(nums[k])])

\* text.split(sep) for a one-character sep: the pieces between the cuts
split(text, sep) ==
    LET cuts == {0} \cup {i \in 1..Len(text) : text[i] = sep} \cup {Len(text) + 1}
        nth(k) == CHOOSE c \in cuts : Cardinality({d \in cuts : d < c}) = k
    IN [k \in 1..(Cardinality(cuts) - 1) |->
           SubSeq(text, nth(k - 1) + 1, nth(k) - 1)]

\* [int(x) for x in text.split(',')]: None when one int() raises
split_numbers(text) ==
    LET parts == split(text, ",")
        values == [k \in 1..Len(parts) |-> int(parts[k])]
    IN IF \E k \in 1..Len(parts) : values[k] = None THEN None
       ELSE Some([k \in 1..Len(parts) |-> values[k][1]])

\* str(nums) of a list of ints: "[1, 2, 3]"
str_list(nums) ==
    <<"[">> \o join(<<",", " ">>, [k \in 1..Len(nums) |-> str(nums[k])]) \o <<"]">>

\* csv.writer (QUOTE_MINIMAL): a field holding a comma or a quote is wrapped
\* in quotes; no text written here holds a quote that would be doubled
csv_write_field(text) ==
    IF \E i \in 1..Len(text) : text[i] \in {",", "\""}
    THEN <<"\"">> \o text \o <<"\"">>
    ELSE text

\* csv.reader: the quotes around a quoted field are dropped
csv_read_field(text) ==
    IF Len(text) >= 2 /\ text[1] = "\"" /\ text[Len(text)] = "\""
    THEN SubSeq(text, 2, Len(text) - 1)
    ELSE text

\* ======================================================================
\* KenoTracker (keno_tracker.py)
\* ======================================================================
\* The draws the trackers are fed: game_id 1 on two dates, and the draw that
\* follows the first of them.
TrackerGames == {Game(1, D1), Game(2, D1), Game(1, D2)}

First(S) == CHOOSE i \in S : \A j \in S : i <= j

\* a next id that does not wrap
next_game_id_unwrapped(game_id) == game_id + 1

\* game_id + 1 if game_id < 999 else 1
next_game_id(game_id) == IF game_id < 999 THEN game_id + 1 ELSE 1

Call(op, arg, value) == [op |-> op, arg |-> arg, value |-> value]

TrackerInit ==
    /\ self_games = <<>>
    /\ predictions = <<>>
    /\ scores = <<>>
    /\ predictions_csv = <<>>
    /\ scores_csv = <<>>
    /\ result = Call("init", <<>>, <<>>)

\* self.games.sort(key=lambda g: g['game_id'], reverse=True)
kt_sort(gs) == StableSort(gs, [g \in Range(gs) |-> <<0 - g.game_id, 0>>])

\* add_game: [is_new, games, csv]
kt_add_game(gs, csv, game) ==
    IF \E i \in 1..Len(gs) : unique_key(gs[i]) = unique_key(game)
    THEN [is_new |-> FALSE, games |-> gs, csv |-> csv]
    ELSE [is_new |-> TRUE, games |-> kt_sort(Append(gs, game)),
          csv |-> write_game_to_csv(csv, game)]

\* a variant that counts the predicted numbers that were not drawn
kt_score_prediction_misses(preds, gs, game_id) ==
    LET ps == {i \in 1..Len(preds) : preds[i].game_id = game_id}
        held == {i \in 1..Len(gs) : gs[i].game_id = game_id}
    IN IF ps = {} \/ held = {} THEN None
       ELSE LET prediction == preds[First(ps)]
                game == gs[First(held)]
                predicted == Range(prediction.playable_numbers)
                actual == game.numbers
            IN Some([game_id |-> game_id,
                     hits |-> Cardinality(predicted \ actual),
                     playable_count |-> Len(prediction.playable_numbers),
                     hit_numbers |-> Ascending(predicted \cap actual),
                     predicted |-> prediction.playable_numbers,
                     actual |-> game.numbers])

\* score_prediction: the returned score, or None
kt_score_prediction(preds, gs, game_id) ==
    LET ps == {i \in 1..Len(preds) : preds[i].game_id = game_id}
        held == {i \in 1..Len(gs) : gs[i].game_id = game_id}
    IN IF ps = {} \/ held = {} THEN None
       ELSE LET prediction == preds[First(ps)]
                game == gs[First(held)]
                predicted == Range(prediction.playable_numbers)
                actual == game.numbers
            IN Some([game_id |-> game_id,
                     hits |-> Cardinality(predicted \cap actual),
                     playable_count |-> Len(prediction.playable_numbers),
                     hit_numbers |-> Ascending(predicted \cap actual),
                     predicted |-> prediction.playable_numbers,
                     actual |-> game.numbers])

\* the record score_prediction appends to self.scores
kt_score_row(score) ==
    [game_id |-> score.game_id, hits |-> score.hits,
     playable_count |-> score.playable_count]

\* _save_predictions: the rows of predictions.csv
kt_save_predictions(preds) ==
    [i \in 1..Len(preds) |->
        [game_id |-> csv_write_field(str(preds[i].game_id)),
         date |-> preds[i].date,
         playable_numbers |-> csv_write_field(join_numbers(preds[i].playable_numbers)),
         removed_count |-> csv_write_field(str(preds[i].removed_count))]]

\* _load_predictions: the list loaded, or None when a conversion raises
kt_load_predictions(rows) ==
    LET parsed == [i \in 1..Len(rows) |->
                     [game_id |-> int(csv_read_field(rows[i].game_id)),
                      date |-> rows[i].date,
                      playable_numbers |->
                          split_numbers(csv_read_field(rows[i].playable_numbers)),
                      removed_count |-> int(csv_read_field(rows[i].removed_count))]]
    IN IF \E i \in 1..Len(rows) :
            \/ parsed[i].game_id = None
            \/ parsed[i].playable_numbers = None
            \/ parsed[i].removed_count = None
       THEN None
       ELSE Some([i \in 1..Len(rows) |->
                    [game_id |-> parsed[i].game_id[1],
                     date |-> parsed[i].date,
                     playable_numbers |-> parsed[i].playable_numbers[1],
                     removed_count |-> parsed[i].removed_count[1]]])

\* _save_scores: the rows of scores.csv
kt_save_scores(scs) ==
    [i \in 1..Len(scs) |->
        [game_id |-> csv_write_field(str(scs[i].game_id)),
         hits |-> csv_write_field(str(scs[i].hits)),
         playable_count |-> csv_write_field(str(scs[i].playable_count))]]

\* _load_scores
kt_load_scores(rows) ==
    LET parsed == [i \in 1..Len(rows) |->
                     [game_id |-> int(csv_read_field(rows[i].game_id)),
                      hits |-> int(csv_read_field(rows[i].hits)),
                      playable_count |-> int(csv_read_field(rows[i].playable_count))]]
    IN IF \E i \in 1..Len(rows) :
            \/ parsed[i].game_id = None
            \/ parsed[i].hits = None
            \/ parsed[i].playable_count = None
       THEN None
       ELSE Some([i \in 1..Len(rows) |->
                    [game_id |-> parsed[i].game_id[1],
                     hits |-> parsed[i].hits[1],
                     playable_count |-> parsed[i].playable_count[1]]])

\* process_new_game(game_id, date, time, numbers) for a draw of `fed`
KT_ProcessNewGameFed(fed) ==
    /\ component = "tracker"
    /\ Len(predictions) < MaxPredictions
    /\ \E game \in fed :
       \E added \in {kt_add_game(self_games, games_csv, game)} :
       \E score \in {IF added.is_new /\ Len(added.games) > 1
                      THEN kt_score_prediction(predictions, added.games, game.game_id)
                      ELSE None} :
       \E playable \in {kt_get_playable_numbers(added.games)} :
         LET scores1 == IF score = None THEN scores
                        ELSE Append(scores, kt_score_row(score[1]))
             prediction == [game_id |-> next_game_id(game.game_id),
                            date |-> game.date,
                            playable_numbers |-> Take(playable, 20),
                            removed_count |-> 80 - Len(playable)]
         IN /\ self_games' = added.games
            /\ games_csv' = added.csv
            /\ scores' = scores1
            /\ scores_csv' = IF score = None THEN scores_csv ELSE kt_save_scores(scores1)
            /\ predictions' = Append(predictions, prediction)
            /\ predictions_csv' = kt_save_predictions(Append(predictions, prediction))
            /\ result' = Call("process_new_game", game,
                              [is_new |-> added.is_new, score |-> score,
                               playable_numbers |-> Take(playable, 20)])
    /\ UNCHANGED <<seen_games, last_game_id, state_file>>
    /\ UNCHANGED not_tracker

KT_ProcessNewGame == KT_ProcessNewGameFed(TrackerGames)

\* score_prediction(game_id), as the --score command calls it
KT_ScorePrediction ==
    /\ component = "tracker"
    /\ Len(scores) < MaxScores
    /\ \E game_id \in Ids :
       \E score \in {kt_score_prediction(predictions, self_games, game_id)} :
         LET scores1 == IF score = None THEN scores
                        ELSE Append(scores, kt_score_row(score[1]))
         IN /\ scores' = scores1
            /\ scores_csv' = IF score = None THEN scores_csv ELSE kt_save_scores(scores1)
            /\ result' = Call("score_prediction", game_id, score)
    /\ UNCHANGED <<self_games, predictions, predictions_csv>>
    /\ UNCHANGED <<seen_games, last_game_id, games_csv, state_file>>
    /\ UNCHANGED not_tracker

\* ======================================================================
\* KenoLiveTracker (keno_live_tracker.py)
\* ======================================================================
\* The rows a historical page may show a tracker, most recent first or not.
TrackerEntries == TrackerGames \cup {BadEntry}
TrackerPages == SeqsUpTo(TrackerEntries, MaxPageLen)

\* the draws a page shows: its rows with 20 numbers, in no order
Shown(page) == {link \in Range(page) : Cardinality(link.numbers) = BALLS_DRAWN}

\* fetch_historical_games, the loop over the links; st = [games, seen]
RECURSIVE lt_fetch_loop(_, _, _)
lt_fetch_loop(links, i, st) ==
    IF i > Len(links) THEN st
    ELSE LET link == links[i]
             key == unique_key(link)
         IN IF Cardinality(link.numbers) = 20 /\ key \notin st.seen
            THEN lt_fetch_loop(links, i + 1,
                     [games |-> Append(st.games, link), seen |-> st.seen \cup {key}])
            ELSE lt_fetch_loop(links, i + 1, st)

\* score_last_prediction: the score appended and returned, or None
lt_score_last_prediction(preds, actual_game) ==
    LET ps == {i \in 1..Len(preds) : /\ preds[i].game_id = actual_game.game_id
                                      /\ preds[i].date = actual_game.date}
    IN IF ps = {} THEN None
       ELSE LET prediction == preds[First(ps)]
                predicted == Range(prediction.playable_numbers)
                actual == actual_game.numbers
            IN Some([game_id |-> actual_game.game_id,
                     date |-> actual_game.date,
                     hits |-> Cardinality(predicted \cap actual),
                     playable_count |-> Len(prediction.playable_numbers),
                     hit_numbers |-> Ascending(predicted \cap actual)])

\* the rows score_last_prediction writes to scores.csv
lt_save_scores(scs) ==
    [i \in 1..Len(scs) |->
        [game_id |-> csv_write_field(str(scs[i].game_id)),
         hits |-> csv_write_field(str(scs[i].hits)),
         playable_count |-> csv_write_field(str(scs[i].playable_count))]]

\* the rows save_prediction writes: writer.writerow(p) turns each value of
\* the record into text with str(), the list of numbers included
lt_save_predictions(preds) ==
    [i \in 1..Len(preds) |->
        [game_id |-> csv_write_field(str(preds[i].game_id)),
         date |-> preds[i].date,
         playable_numbers |-> csv_write_field(str_list(preds[i].playable_numbers)),
         removed_count |-> csv_write_field(str(preds[i].removed_count))]]

\* _load_data, predictions: the statements of KenoTracker._load_predictions
lt_load_predictions(rows) == kt_load_predictions(rows)

\* _load_data, scores: the statements of KenoTracker._load_scores
lt_load_scores(rows) == kt_load_scores(rows)

\* process_new_games, the loop over the new games from position i on;
\* st = [games, predictions, scores, predictions_csv, scores_csv, games_csv,
\*       last_game_id, state_file, results]
RECURSIVE lt_process_loop(_, _, _, _)
lt_process_loop(new_games, i, seen, st) ==
    IF i > Len(new_games) THEN st
    ELSE LET game == new_games[i]
             score == lt_score_last_prediction(st.predictions, game)
             scores1 == IF score = None THEN st.scores ELSE Append(st.scores, score[1])
             games1 == <<game>> \o st.games
             last1 == IF game.game_id > st.last_game_id THEN game.game_id
                      ELSE st.last_game_id
             playable == lt_get_playable_numbers(games1)
             prediction == [game_id |-> next_game_id(game.game_id),
                            date |-> game.date,
                            playable_numbers |-> Take(playable, 20),
                            removed_count |-> Cardinality(lt_remove_reasons(games1))]
             predictions1 == Append(st.predictions, prediction)
         IN lt_process_loop(new_games, i + 1, seen,
                [games |-> games1,
                 predictions |-> predictions1,
                 scores |-> scores1,
                 predictions_csv |-> lt_save_predictions(predictions1),
                 scores_csv |-> IF score = None THEN st.scores_csv
                                ELSE lt_save_scores(scores1),
                 games_csv |-> write_game_to_csv(st.games_csv, game),
                 last_game_id |-> last1,
                 state_file |-> save_state(last1, seen),
                 results |-> Append(st.results,
                                [game |-> game, score |-> score,
                                 next_prediction |-> Take(playable, 20)])])

\* run_once(): fetch_historical_games, then process_new_games
LT_RunOnceShown(pages) ==
    /\ component = "live"
    /\ \E page \in pages :
       \E fetched \in {lt_fetch_loop(page, 1, [games |-> <<>>, seen |-> seen_games])} :
       \E st \in {lt_process_loop(fetched.games, 1, fetched.seen,
                       [games |-> self_games, predictions |-> predictions,
                        scores |-> scores, predictions_csv |-> predictions_csv,
                        scores_csv |-> scores_csv, games_csv |-> games_csv,
                        last_game_id |-> last_game_id, state_file |-> state_file,
                        results |-> <<>>])} :
            /\ seen_games' = fetched.seen
            /\ self_games' = st.games
            /\ predictions' = st.predictions
            /\ scores' = st.scores
            /\ predictions_csv' = st.predictions_csv
            /\ scores_csv' = st.scores_csv
            /\ games_csv' = st.games_csv
            /\ last_game_id' = st.last_game_id
            /\ state_file' = st.state_file
            /\ result' = Call("run_once", Shown(page), st.results)
    /\ UNCHANGED not_tracker

LT_RunOnce == LT_RunOnceShown(TrackerPages)

\* ======================================================================
\* KenoMultiStrategy (keno_multi_strategy.py); of the eleven strategies the
\* tables are followed for 'elimination', each of the others going through
\* the same statements with its own pick list
\* ======================================================================
\* the keys of get_all_predictions()
Strategies ==
    {"elimination", "statistical", "vacuum", "deadzone", "mirror", "cluster",
     "opposite_rc", "decade", "icebox", "lonely7", "arrow"}

\* fetch_historical_games, the loop over the links; st = [games, seen]
RECURSIVE ms_fetch_loop(_, _, _)
ms_fetch_loop(links, i, st) ==
    IF i > Len(links) THEN st
    ELSE LET link == links[i]
             key == unique_key(link)
         IN IF Cardinality(link.numbers) = 20 /\ key \notin st.seen
            THEN ms_fetch_loop(links, i + 1,
                     [games |-> Append(st.games, link), seen |-> st.seen \cup {key}])
            ELSE ms_fetch_loop(links, i + 1, st)

\* score_prediction(strategy, game_id, actual): the score appended, or None
ms_score_prediction(preds, game_id, actual) ==
    LET ps == {i \in 1..Len(preds) : preds[i].game_id = game_id}
    IN IF ps = {} THEN None
       ELSE LET pred == preds[First(ps)]
            IN Some([game_id |-> game_id,
                     hits |-> Cardinality(Range(pred.picks) \cap actual),
                     pick_count |-> Len(pred.picks)])

\* _save_predictions
ms_save_predictions(preds) ==
    [i \in 1..Len(preds) |->
        [strategy |-> preds[i].strategy,
         game_id |-> csv_write_field(str(preds[i].game_id)),
         date |-> preds[i].date,
         picks |-> csv_write_field(join_numbers(preds[i].picks))]]

\* _load_predictions
ms_load_predictions(rows) ==
    LET parsed == [i \in 1..Len(rows) |->
                     [strategy |-> rows[i].strategy,
                      game_id |-> int(csv_read_field(rows[i].game_id)),
                      date |-> rows[i].date,
                      picks |-> split_numbers(csv_read_field(rows[i].picks))]]
    IN IF \E i \in 1..Len(rows) : parsed[i].game_id = None \/ parsed[i].picks = None
       THEN None
       ELSE Some([i \in 1..Len(rows) |->
                    [strategy |-> parsed[i].strategy,
                     game_id |-> parsed[i].game_id[1],
                     date |-> parsed[i].date,
                     picks |-> parsed[i].picks[1]]])

\* _save_scores
ms_save_scores(scs) ==
    [i \in 1..Len(scs) |->
        [strategy |-> "elimination",
         game_id |-> csv_write_field(str(scs[i].game_id)),
         hits |-> csv_write_field(str(scs[i].hits)),
         pick_count |-> csv_write_field(str(scs[i].pick_count))]]

\* _load_scores
ms_load_scores(rows) ==
    LET parsed == [i \in 1..Len(rows) |->
                     [game_id |-> int(csv_read_field(rows[i].game_id)),
                      hits |-> int(csv_read_field(rows[i].hits)),
                      pick_count |-> int(csv_read_field(rows[i].pick_count))]]
    IN IF \E i \in 1..Len(rows) :
            \/ parsed[i].game_id = None
            \/ parsed[i].hits = None
            \/ parsed[i].pick_count = None
       THEN None
       ELSE Some([i \in 1..Len(rows) |->
                    [game_id |-> parsed[i].game_id[1],
                     hits |-> parsed[i].hits[1],
                     pick_count |-> parsed[i].pick_count[1]]])

\* run_once's "for game in new_games: add_game(game)" from position i on;
\* st = [games, seen, predictions, scores, results]; a result's `filed` is
\* the game_id add_game files each strategy's prediction under
RECURSIVE ms_add_loop(_, _, _)
ms_add_loop(new_games, i, st) ==
    IF i > Len(new_games) THEN st
    ELSE LET game == new_games[i]
             score == ms_score_prediction(st.predictions, game.game_id, game.numbers)
             games1 == <<game>> \o st.games
             picks == strategy_elimination(games1)
             pred == [strategy |-> "elimination",
                      game_id |-> next_game_id(game.game_id),
                      date |-> game.date,
                      picks |-> Take(picks, 20)]
         IN ms_add_loop(new_games, i + 1,
                [games |-> games1,
                 seen |-> st.seen \cup {unique_key(game)},
                 predictions |-> Append(st.predictions, pred),
                 scores |-> IF score = None THEN st.scores
                            ELSE Append(st.scores, score[1]),
                 results |-> Append(st.results,
                                [game |-> game, score |-> score, picks |-> picks,
                                 filed |-> [strategy \in Strategies |->
                                               next_game_id(game.game_id)]])])

\* run_once(): fetch_historical_games, then add_game for each new game
MS_RunOnceShown(pages) ==
    /\ component = "multi"
    /\ \E page \in pages :
       \E fetched \in {ms_fetch_loop(page, 1, [games |-> <<>>, seen |-> seen_games])} :
       \E st \in {ms_add_loop(fetched.games, 1,
                       [games |-> self_games, seen |-> fetched.seen,
                        predictions |-> predictions, scores |-> scores,
                        results |-> <<>>])} :
       \E added \in {Len(fetched.games) > 0} :
            /\ seen_games' = st.seen
            /\ self_games' = st.games
            /\ predictions' = st.predictions
            /\ scores' = st.scores
            /\ predictions_csv' = IF added THEN ms_save_predictions(st.predictions)
                                  ELSE predictions_csv
            /\ scores_csv' = IF added THEN ms_save_scores(st.scores) ELSE scores_csv
            /\ state_file' = IF added THEN [state_file EXCEPT !.seen_games = st.seen]
                             ELSE state_file
            /\ result' = Call("run_once", Shown(page), st.results)
    /\ UNCHANGED <<last_game_id, games_csv>>
    /\ UNCHANGED not_tracker

MS_RunOnce == MS_RunOnceShown(TrackerPages)

\* ======================================================================
\* Specifications
\* ======================================================================
NextScraper ==
    \/ CheckAndSave
    \/ FetchPage
    \/ DeepBegin
    \/ DeepIter
    \/ RunOnce

InitScraper ==
    /\ component = "scraper"
    /\ ScraperInit
    /\ TrackerInit
    /\ RulesInit
    /\ SourceIdle
    /\ EntryIdle

SpecScraper == InitScraper /\ [][NextScraper]_vars

NextRules ==
    \/ PushDraw
    \/ TrackerPlayable
    \/ LivePlayable
    \/ MultiElimination

InitRules ==
    /\ component = "rules"
    /\ ScraperInit
    /\ TrackerInit
    /\ RulesInit
    /\ SourceIdle
    /\ EntryIdle

NextIngest ==
    \/ CheckAndSave
    \/ FetchPage
    \/ DeepBegin
    \/ DeepIter
    \/ RunOnce
    \/ KT_ProcessNewGame
    \/ KT_ScorePrediction
    \/ LT_RunOnce
    \/ MS_RunOnce

InitIngest ==
    /\ component \in {"scraper", "tracker", "live", "multi"}
    /\ ScraperInit
    /\ TrackerInit
    /\ RulesInit
    /\ SourceIdle
    /\ EntryIdle

SpecIngest == InitIngest /\ [][NextIngest]_vars

SpecRules == InitRules /\ [][NextRules]_vars

\* ======================================================================
\* Properties of the scraper (checked under SpecScraper)
\* ======================================================================
KeysOf(rows) == {unique_key(rows[i]) : i \in 1..Len(rows)}

DistinctKeys(rows) ==
    \A i, j \in 1..Len(rows) : i # j => unique_key(rows[i]) # unique_key(rows[j])

Appended == SubSeq(games_csv'.rows, Len(games_csv.rows) + 1, Len(games_csv'.rows))

\* C1: over any sequence of check_and_save_new_games calls (lists that repeat
\* a key included) the canonical table never holds an identity key twice;
\* a call only appends rows, never a row whose key was already in seen_games,
\* and returns exactly the number of rows it appended.
C1_AppendedAtMostOnce ==
    /\ [](DistinctKeys(games_csv.rows))
    /\ [][ret'.op = "save" =>
            /\ IsPrefix(games_csv.rows, games_csv'.rows)
            /\ KeysOf(Appended) \cap seen_games = {}
            /\ Range(Appended) \subseteq Range(ret'.games)
            /\ ret'.count = Len(Appended)]_vars

\* a call was handed the same new draw twice and appended it once
C1_RepeatedKeySavedOnce ==
    /\ ret.op = "save"
    /\ Len(ret.games) = 2
    /\ ret.games[1] = ret.games[2]
    /\ ret.count = 1
    /\ Len(games_csv.rows) = 2

KnownPage ==
    /\ Len(page_source) > 0
    /\ \A i \in 1..Len(page_source) :
         /\ parse_historical_entry(page_source[i]) # None
         /\ unique_key(page_source[i]) \in seen_games \cup deep.collected_keys

\* C3: when the page fetch_historical_deep is at has at least one entry and
\* every entry's key is in seen_games or was collected earlier in the run,
\* the scan returns from that page without clicking a back button.
C3_StopsAtKnownPage ==
    [][pc = "deep" /\ KnownPage =>
         pc' = "idle" /\ clicks' = clicks /\ ret'.op = "deep"]_vars

\* the scan is at its second page, has room for more games and more pages,
\* and the page repeats only draws collected from the first page
C3_AtKnownSecondPage ==
    /\ pc = "deep"
    /\ KnownPage
    /\ deep.page_num = 1
    /\ deep.max_pages = 3
    /\ Len(deep.all_games) < deep.max_games
    /\ seen_games = {}

\* C4: fetch_historical_page and fetch_historical_deep leave seen_games and
\* last_game_id as they were (only check_and_save_new_games, called directly
\* or by run_once, changes them), and the games fetch_historical_deep returns
\* have pairwise distinct keys, none of them in seen_games.
C4_FetchLeavesCheckpoint ==
    /\ [](ret.op = "deep" =>
            DistinctKeys(ret.games) /\ KeysOf(ret.games) \cap seen_games = {})
    /\ [][(pc = "deep" \/ ret'.op \in {"page", "deep", "scanning"}) =>
            UNCHANGED <<seen_games, last_game_id>>]_vars
    /\ [][<<seen_games, last_game_id>>' # <<seen_games, last_game_id>> =>
            ret'.op \in {"save", "run_once"}]_vars

\* a deep fetch returned the draw of one date while the checkpoint already
\* held the draw with the same game_id of the other date
C4_DeepReturnedBesideSeen ==
    /\ ret.op = "deep"
    /\ Len(ret.games) = 1
    /\ seen_games = {<<1, D1>>}
    /\ unique_key(ret.games[1]) = <<1, D2>>

\* C5: fetch_historical_deep(max_games, max_pages) returns at most max_games
\* games (ret.count holds the max_games of the call that returned).
C5_AtMostMaxGames ==
    ret.op = "deep" => Len(ret.games) <= ret.count

C10_EliminationMatchesEngine ==
    out.fn = "multi" =>
        /\ out.result = Take(lt_get_playable_numbers(hist), 20)
        /\ out.result = Take(kt_get_playable_numbers(hist), 20)

\* ======================================================================
\* Properties of the ingestion paths and of the trackers' tables
\* (checked under SpecIngest)
\* ======================================================================
\* the draws the running component holds: the rows of the canonical table
\* for the scraper, self.games for a tracker
HeldDraws ==
    IF component = "scraper" THEN Range(games_csv.rows) ELSE Range(self_games)

\* the draws the last ingestion call was handed
OfferedDraws ==
    IF component = "scraper"
    THEN (IF ret.op = "save" THEN Range(ret.games) ELSE {})
    ELSE IF result.op = "process_new_game" THEN {result.arg}
    ELSE IF result.op = "run_once" THEN result.arg
    ELSE {}

\* C2: on every ingestion path (check_and_save_new_games, KenoTracker's
\* add_game, the fetch-and-add path of KenoLiveTracker and KenoMultiStrategy)
\* every draw handed to a call is held once the call is over and no held draw
\* is ever dropped; two draws with the same game_id and different dates are
\* therefore both held after both were ingested, in either order.
C2_SameIdOtherDateBothHeld ==
    /\ [](OfferedDraws \subseteq HeldDraws)
    /\ [][HeldDraws \subseteq HeldDraws']_vars

\* the live tracker was shown game_id 1 of the later date first and game_id 1
\* of the earlier date afterwards, and holds both
C2_LaterDateIngestedFirst ==
    /\ component = "live"
    /\ result.op = "run_once"
    /\ result.arg = {Game(1, D1)}
    /\ self_games = <<Game(1, D1), Game(1, D2)>>

\* hits and count as scoring the list picks against the numbers drawn must
\* give them
CountedAgainst(hits, count, picks, drawn) ==
    /\ hits = Cardinality({n \in drawn : \E k \in 1..Len(picks) : picks[k] = n})
    /\ count = Len(picks)

\* hit_numbers: the picks that were drawn, each once, in ascending order
ListedAgainst(hit_numbers, picks, drawn) ==
    /\ \A k \in 1..Len(hit_numbers) :
         /\ hit_numbers[k] \in drawn
         /\ \E j \in 1..Len(picks) : picks[j] = hit_numbers[k]
         /\ k > 1 => hit_numbers[k - 1] < hit_numbers[k]
    /\ \A j \in 1..Len(picks) :
         picks[j] \in drawn => \E k \in 1..Len(hit_numbers) : hit_numbers[k] = picks[j]

\* KenoTracker: a call that returns score for game_id
KT_ScoredRight(game_id, score) ==
    LET ps == {i \in 1..Len(predictions) : predictions[i].game_id = game_id}
        gs == {i \in 1..Len(self_games') : self_games'[i].game_id = game_id}
    IN /\ (ps = {} \/ gs = {}) => score = None
       /\ score = None => scores' = scores
       /\ score # None =>
            /\ ps # {} /\ gs # {}
            /\ CountedAgainst(score[1].hits, score[1].playable_count,
                              predictions[First(ps)].playable_numbers,
                              self_games'[First(gs)].numbers)
            /\ ListedAgainst(score[1].hit_numbers,
                             predictions[First(ps)].playable_numbers,
                             self_games'[First(gs)].numbers)
            /\ scores' = Append(scores, [game_id |-> game_id,
                                          hits |-> score[1].hits,
                                          playable_count |-> score[1].playable_count])

\* the scores of the first i results of a run_once call
Yielded(results, i) == {k \in 1..i : results[k].score # None}

\* KenoLiveTracker: the i-th result of a run_once call
LT_ScoredRight(results, i) ==
    LET game == results[i].game
        score == results[i].score
        filed == Take(predictions', Len(predictions) + i - 1)
        ps == {k \in 1..Len(filed) : /\ filed[k].game_id = game.game_id
                                      /\ filed[k].date = game.date}
    IN /\ ps = {} <=> score = None
       /\ score # None =>
            /\ CountedAgainst(score[1].hits, score[1].playable_count,
                              filed[First(ps)].playable_numbers, game.numbers)
            /\ ListedAgainst(score[1].hit_numbers,
                             filed[First(ps)].playable_numbers, game.numbers)
            /\ scores'[Len(scores) + Cardinality(Yielded(results, i))] = score[1]

\* KenoMultiStrategy: the i-th result of a run_once call
MS_ScoredRight(results, i) ==
    LET game == results[i].game
        score == results[i].score
        filed == Take(predictions', Len(predictions) + i - 1)
        ps == {k \in 1..Len(filed) : filed[k].game_id = game.game_id}
    IN /\ ps = {} <=> score = None
       /\ score # None =>
            /\ CountedAgainst(score[1].hits, score[1].pick_count,
                              filed[First(ps)].picks, game.numbers)
            /\ scores'[Len(scores) + Cardinality(Yielded(results, i))] =
                   [game_id |-> game.game_id, hits |-> score[1].hits,
                    pick_count |-> score[1].pick_count]

\* C6: a score (KenoTracker.score_prediction, also when process_new_game
\* calls it; KenoLiveTracker.score_last_prediction; KenoMultiStrategy's
\* score_prediction) has hits = the number of drawn numbers among the filed
\* prediction's numbers, hit_numbers = those numbers in ascending order, and
\* playable_count / pick_count = the length of the prediction; it is appended
\* to the scores; when no prediction or no draw is found the call yields no
\* value and the scores are left as they were.
C6_ScoreIsIntersection ==
    [][/\ (component = "tracker" /\ result'.op = "score_prediction") =>
              KT_ScoredRight(result'.arg, result'.value)
       /\ (component = "tracker" /\ result'.op = "process_new_game") =>
              (result'.value.score # None =>
                   KT_ScoredRight(result'.arg.game_id, result'.value.score))
       /\ (component = "live" /\ result'.op = "run_once") =>
              /\ \A i \in 1..Len(result'.value) : LT_ScoredRight(result'.value, i)
              /\ Len(scores') = Len(scores)
                     + Cardinality(Yielded(result'.value, Len(result'.value)))
       /\ (component = "multi" /\ result'.op = "run_once") =>
              /\ \A i \in 1..Len(result'.value) : MS_ScoredRight(result'.value, i)
              /\ Len(scores') = Len(scores)
                     + Cardinality(Yielded(result'.value, Len(result'.value)))]_vars

\* process_new_game scored the prediction filed after draw 1 against draw 2:
\* three of its twenty numbers were drawn
C6_ThreeOfTwentyHit ==
    /\ component = "tracker"
    /\ result.op = "process_new_game"
    /\ result.value.score # None
    /\ result.value.score[1].hit_numbers = <<10, 19, 26>>
    /\ result.value.score[1].hits = 3
    /\ result.value.score[1].playable_count = 20

\* C7: after any sequence of KenoTracker.process_new_game and score_prediction
\* calls, and after any sequence of KenoLiveTracker.process_new_games calls,
\* the scores hold at most one record per draw (KenoTracker's records carry the
\* game_id alone: no more records with a game_id than draws held with it;
\* KenoLiveTracker's carry game_id and date), and a call leaves the records
\* already in the list as they were.
C7_ScoredOncePerDraw ==
    /\ [](component = "tracker" =>
            \A id \in Ids :
                Cardinality({i \in 1..Len(scores) : scores[i].game_id = id})
                    <= Cardinality({g \in Range(self_games) : g.game_id = id}))
    /\ [](component = "live" =>
            \A i, j \in 1..Len(scores) :
                (scores[i].game_id = scores[j].game_id /\ scores[i].date = scores[j].date)
                    => i = j)
    /\ [][(component \in {"tracker", "live"}) => IsPrefix(scores, scores')]_vars

\* the (game_id, numbers) pairs of a predictions table
PredictionTuples(preds, numbers(_)) ==
    [i \in 1..Len(preds) |-> <<preds[i].game_id, numbers(preds[i])>>]

\* the (game_id, hits, count) triples of a scores table
ScoreTuples(scs, count(_)) ==
    [i \in 1..Len(scs) |-> <<scs[i].game_id, scs[i].hits, count(scs[i])>>]

PlayableOf(p) == p.playable_numbers
PicksOf(p) == p.picks
PlayableCountOf(s) == s.playable_count
PickCountOf(s) == s.pick_count

\* C8: in KenoTracker, KenoLiveTracker and KenoMultiStrategy the tables on
\* disk, loaded by a fresh instance, give back the (game_id, numbers) of every
\* prediction filed and the (game_id, hits, count) of every score, a
\* prediction with an empty list of numbers included.
C8_TablesReload ==
    /\ component = "tracker" =>
         /\ kt_load_predictions(predictions_csv) # None
         /\ PredictionTuples(kt_load_predictions(predictions_csv)[1], PlayableOf)
                = PredictionTuples(predictions, PlayableOf)
         /\ kt_load_scores(scores_csv) # None
         /\ ScoreTuples(kt_load_scores(scores_csv)[1], PlayableCountOf)
                = ScoreTuples(scores, PlayableCountOf)
    /\ component = "live" =>
         /\ lt_load_predictions(predictions_csv) # None
         /\ PredictionTuples(lt_load_predictions(predictions_csv)[1], PlayableOf)
                = PredictionTuples(predictions, PlayableOf)
         /\ lt_load_scores(scores_csv) # None
         /\ ScoreTuples(lt_load_scores(scores_csv)[1], PlayableCountOf)
                = ScoreTuples(scores, PlayableCountOf)
    /\ component = "multi" =>
         /\ ms_load_predictions(predictions_csv) # None
         /\ PredictionTuples(ms_load_predictions(predictions_csv)[1], PicksOf)
                = PredictionTuples(predictions, PicksOf)
         /\ ms_load_scores(scores_csv) # None
         /\ ScoreTuples(ms_load_scores(scores_csv)[1], PickCountOf)
                = ScoreTuples(scores, PickCountOf)

\* ======================================================================
\* Board geometry (keno_tracker.py, keno_live_tracker.py,
\* keno_multi_strategy.py): the helpers applied to one number
\* ======================================================================
\* def mirror_num(n): return 81 - n
mirror_num(n) == 81 - n

\* get_row, get_col and get_neighbors of keno_tracker / keno_live_tracker
BoardHelpers ==
    /\ component = "board"
    /\ \E n \in Numbers :
         out' = Out("get_neighbors",
                    [num |-> n, row |-> get_row(n), col |-> get_col(n),
                     neighbors |-> get_neighbors(n)], 1)
    /\ UNCHANGED hist
    /\ UNCHANGED not_rules

\* rc, to_num, get_neighbors and mirror_num of keno_multi_strategy
MultiBoardHelpers ==
    /\ component = "board"
    /\ \E n \in Numbers :
         out' = Out("ms_get_neighbors",
                    [num |-> n, rc |-> rc(n), back |-> to_num(rc(n)[1], rc(n)[2]),
                     neighbors |-> ms_get_neighbors(n),
                     mirror |-> mirror_num(n),
                     mirror_twice |-> mirror_num(mirror_num(n))], 1)
    /\ UNCHANGED hist
    /\ UNCHANGED not_rules

NextBoard ==
    \/ BoardHelpers
    \/ MultiBoardHelpers

InitBoard ==
    /\ component = "board"
    /\ ScraperInit
    /\ TrackerInit
    /\ RulesInit
    /\ SourceIdle
    /\ EntryIdle

SpecBoard == InitBoard /\ [][NextBoard]_vars

\* ---------------------------------------------------------------------
\* Properties of the board geometry (checked under SpecBoard)
\* ---------------------------------------------------------------------
\* numbers away from every edge, and the four corners
Interior == {n \in Numbers : (n - 1) \div 10 \in 1..6 /\ (n - 1) % 10 \in 1..8}
Corners == {1, 10, 71, 80}

NeighborsRight(n, neighbors) ==
    /\ n \notin neighbors
    /\ neighbors \subseteq 1..80
    /\ n \in Interior => Cardinality(neighbors) = 8
    /\ n \in Corners => Cardinality(neighbors) = 3

\* C11: for every n in 1..80 row(n) is in 1..8, col(n) in 1..10 and
\* (row-1)*10+col = n; mirror(mirror(n)) = n and mirror(n) # n; the
\* neighbour set of n leaves n out, lies inside 1..80, has 8 members for an
\* interior number and 3 for a corner; and keno_multi_strategy's
\* get_neighbors gives the set keno_tracker's get_neighbors gives.
C11_BoardGeometry ==
    /\ out.fn = "get_neighbors" =>
         /\ out.result.row \in 1..8
         /\ out.result.col \in 1..10
         /\ (out.result.row - 1) * 10 + out.result.col = out.result.num
         /\ NeighborsRight(out.result.num, out.result.neighbors)
    /\ out.fn = "ms_get_neighbors" =>
         /\ out.result.rc[1] \in 0..7
         /\ out.result.rc[2] \in 0..9
         /\ out.result.back = out.result.num
         /\ out.result.mirror_twice = out.result.num
         /\ out.result.mirror # out.result.num
         /\ out.result.mirror \in 1..80
         /\ NeighborsRight(out.result.num, out.result.neighbors)
         /\ out.result.neighbors = get_neighbors(out.result.num)

\* the multi-strategy helper was applied to the corner number 80
C11_CornerNeighbors ==
    /\ out.fn = "ms_get_neighbors"
    /\ out.result.num = 80
    /\ out.result.neighbors = {69, 70, 79}

\* ======================================================================
\* KenoMultiStrategy.strategy_vacuum (keno_multi_strategy.py)
\* ======================================================================
MaxVacuumHist == 6

\* Draws fed to strategy_vacuum: two disjoint draws, one sharing number 7 and
\* one sharing number 9 with the first.
VacA == 1..20
VacB == 21..40
VacC == {7} \cup (41..59)
VacD == {9} \cup (61..79)
VacuumCatalogue == {VacA, VacB, VacC, VacD}

\* hit_counts[num]: the games of gs that hold num
hit_counts(gs, num) == Cardinality({i \in 1..Len(gs) : num \in gs[i].numbers})

\* hit_counts.items(): a Counter lists its keys in the order they were first
\* counted; update() walks each game's set of numbers, which for 20 numbers
\* below 128 is ascending order
RECURSIVE counter_keys(_, _, _)
counter_keys(gs, i, counted) ==
    IF i > Len(gs) THEN <<>>
    ELSE Ascending(gs[i].numbers \ counted)
             \o counter_keys(gs, i + 1, counted \cup gs[i].numbers)

\* sorted(keys, key=lambda n: -hit_counts[n]), also Counter.most_common: the
\* keys with count c, c-1, ..., 1, each group in the order it had
RECURSIVE by_count_desc(_, _, _)
by_count_desc(keys, gs, c) ==
    IF c = 0 THEN <<>>
    ELSE LET has_c(n) == hit_counts(gs, n) = c
         IN SelectSeq(keys, has_c) \o by_count_desc(keys, gs, c - 1)

\* a variant whose fallback lists the keys as the tally holds them
strategy_vacuum_unsorted(games) ==
    IF Len(games) < 6 THEN Ascending(Numbers)
    ELSE LET gs == Take(games, 6)
             keys == counter_keys(gs, 1, {})
             is_super_hot(n) == hit_counts(gs, n) >= 4
             is_hot(n) == hit_counts(gs, n) >= 3
             super_hot == SelectSeq(keys, is_super_hot)
         IN IF Len(super_hot) >= 10 THEN Take(super_hot, 10)
            ELSE IF Len(super_hot) > 0
                 THEN Take(SelectSeq(keys, is_hot), 10)
                 ELSE Take(by_count_desc(keys, gs, 6), 10)

\* strategy_vacuum()
strategy_vacuum(games) ==
    IF Len(games) < 6 THEN Ascending(Numbers)
    ELSE LET gs == Take(games, 6)
             keys == counter_keys(gs, 1, {})
             is_super_hot(n) == hit_counts(gs, n) >= 4
             is_hot(n) == hit_counts(gs, n) >= 3
             super_hot == SelectSeq(keys, is_super_hot)
         IN IF Len(super_hot) >= 10 THEN Take(super_hot, 10)
            ELSE IF Len(super_hot) > 0
                 THEN Take(by_count_desc(SelectSeq(keys, is_hot), gs, 6), 10)
                 ELSE Take(by_count_desc(keys, gs, 6), 10)

\* a new draw becomes the most recent one
VacuumPushDraw ==
    /\ component = "vacuum"
    /\ Len(hist) < MaxVacuumHist
    /\ \E d \in VacuumCatalogue : hist' = <<[numbers |-> d]>> \o hist
    /\ out' = Out("none", <<>>, 0)
    /\ UNCHANGED not_rules

\* strategy_vacuum() on the history
MultiVacuum ==
    /\ component = "vacuum"
    /\ out.fn = "none"
    /\ \E picks \in {strategy_vacuum(hist)} : out' = Out("vacuum", picks, 1)
    /\ UNCHANGED hist
    /\ UNCHANGED not_rules

NextVacuum ==
    \/ VacuumPushDraw
    \/ MultiVacuum

InitVacuum ==
    /\ component = "vacuum"
    /\ ScraperInit
    /\ TrackerInit
    /\ RulesInit
    /\ SourceIdle
    /\ EntryIdle

SpecVacuum == InitVacuum /\ [][NextVacuum]_vars

\* ---------------------------------------------------------------------
\* Properties of strategy_vacuum (checked under SpecVacuum)
\* ---------------------------------------------------------------------
\* the number of draws among the last 6 that hold n
HitsInLastSix(n) == Cardinality({i \in 1..6 : n \in hist[i].numbers})

SuperHot == {n \in Numbers : HitsInLastSix(n) >= 4}

\* the output lists numbers by non-increasing count, every one of them hit
\* at least 3 times, and a number hit exactly 3 times is among them when
\* there is one
ThreeHitPath(picks) ==
    /\ \A j, k \in 1..Len(picks) :
         j < k => HitsInLastSix(picks[j]) >= HitsInLastSix(picks[k])
    /\ \A k \in 1..Len(picks) : HitsInLastSix(picks[k]) >= 3
    /\ (\E n \in Numbers : HitsInLastSix(n) = 3)
           => \E k \in 1..Len(picks) : HitsInLastSix(picks[k]) = 3

\* C12 as stated: with at least 6 draws and fewer than 10 numbers hit in 4 or
\* more of the last 6, strategy_vacuum takes the >=3-hit path: its output is
\* ordered by non-increasing count over the last 6 draws, holds only numbers
\* hit at least 3 times, and includes a number hit exactly 3 times, behind
\* every number with a higher count.
C12_VacuumFallsBackToThree ==
    (out.fn = "vacuum" /\ Len(hist) >= 6 /\ Cardinality(SuperHot) < 10)
        => ThreeHitPath(out.result)

\* C12 amended: the >=3-hit path is taken when at least one and fewer than 10
\* numbers were hit in 4 or more of the last 6 draws; when none was, the
\* output is the 10 most frequent numbers of the last 6 draws, still by
\* non-increasing count, whatever their count.
C12_VacuumFallsBackFromSome ==
    (out.fn = "vacuum" /\ Len(hist) >= 6) =>
        /\ Cardinality(SuperHot) \in 1..9 => ThreeHitPath(out.result)
        /\ Cardinality(SuperHot) = 0 =>
             /\ Len(out.result) = 10
             /\ \A j, k \in 1..10 :
                  j < k => HitsInLastSix(out.result[j]) >= HitsInLastSix(out.result[k])
             /\ \A n \in Numbers :
                  HitsInLastSix(n) > HitsInLastSix(out.result[10])
                      => \E k \in 1..10 : out.result[k] = n

\* number 7 was hit 4 times and number 9 exactly 3 times: the output is 7,
\* then 9
C12_SevenThenNine ==
    /\ out.fn = "vacuum"
    /\ Len(hist) = 6
    /\ SuperHot = {7}
    /\ HitsInLastSix(9) = 3
    /\ out.result = <<7, 9>>

\* ======================================================================
\* Telegram notifications (keno_telegram.py)
\* ======================================================================
MaxPosts == 2

TELEGRAM_CHAT_ID == "5457189805"

\* JSON values the "ok" field of a response body may hold
JsonOk == {[t |-> "bool", v |-> TRUE], [t |-> "bool", v |-> FALSE],
           [t |-> "null", v |-> 0],
           [t |-> "int", v |-> 0], [t |-> "int", v |-> 1],
           [t |-> "str", v |-> ""], [t |-> "str", v |-> "ok"]}

\* bool(value) of Python for these values
truthy(value) ==
    CASE value.t = "bool" -> value.v
      [] value.t = "null" -> FALSE
      [] value.t = "int" -> value.v # 0
      [] value.t = "str" -> value.v # ""

\* What requests.post and response.json() can do: the endpoint is unreachable
\* (ConnectionError), the transport raises (Timeout), the body is no JSON
\* (json() raises), the body is JSON but no object, or an object with or
\* without an "ok" field.
Replies ==
    {[kind |-> k, ok |-> None] : k \in {"unreachable", "timeout", "not_json",
                                        "array", "null", "object"}}
        \cup {[kind |-> "object", ok |-> Some(v)] : v \in JsonOk}

\* send_telegram_message whose try block lets the transport's exception out
send_telegram_message_unguarded(message, chat_id, reply) ==
    LET request == [chat_id |-> IF chat_id = None THEN TELEGRAM_CHAT_ID ELSE chat_id[1],
                    text |-> message]
    IN IF reply.kind \in {"unreachable", "timeout"}
       THEN [returned |-> None, request |-> Some(request)]
       ELSE IF reply.kind \in {"not_json", "array", "null"}
       THEN [returned |-> Some(FALSE), request |-> Some(request)]
       ELSE IF reply.ok # None /\ truthy(reply.ok[1])
       THEN [returned |-> Some(TRUE), request |-> Some(request)]
       ELSE [returned |-> Some(FALSE), request |-> Some(request)]

\* send_telegram_message(message, chat_id): what it returns (None when it
\* raises) and the request it posted; every exception of the try block ends
\* in "return False"
send_telegram_message(message, chat_id, reply) ==
    LET request == [chat_id |-> IF chat_id = None THEN TELEGRAM_CHAT_ID ELSE chat_id[1],
                    text |-> message]
    IN IF reply.kind \in {"unreachable", "timeout"}        \* requests.post raised
       THEN [returned |-> Some(FALSE), request |-> Some(request)]
       ELSE IF reply.kind = "not_json"                      \* response.json() raised
       THEN [returned |-> Some(FALSE), request |-> Some(request)]
       ELSE IF reply.kind \in {"array", "null"}             \* result.get raised
       THEN [returned |-> Some(FALSE), request |-> Some(request)]
       ELSE IF reply.ok # None /\ truthy(reply.ok[1])       \* result.get("ok")
       THEN [returned |-> Some(TRUE), request |-> Some(request)]
       ELSE [returned |-> Some(FALSE), request |-> Some(request)]

\* format_game_message(result), format_leaderboard_message(data): the text,
\* or None when a key is missing or a value has the wrong shape (KeyError,
\* AttributeError, ValueError raised outside any try block)
format_game_message(game_result) ==
    IF game_result = "complete" THEN Some("KENO DUEL RESULTS") ELSE None

format_leaderboard_message(data) ==
    IF data = "well_formed" THEN Some("KENO DUEL LEADERBOARD") ELSE None

ChatIds == {None, Some("other")}

\* one call of the module: the log of posted requests grows by the request
Telegram(fn, arg, sent) ==
    /\ out' = Out(fn, [arg |-> arg, returned |-> sent.returned,
                       request |-> sent.request], 1)
    /\ hist' = IF sent.request = None THEN hist ELSE Append(hist, sent.request[1])
    /\ UNCHANGED not_rules

Raised == [returned |-> None, request |-> None]

SendTelegramMessage ==
    /\ component = "telegram"
    /\ Len(hist) < MaxPosts
    /\ \E reply \in Replies, chat_id \in ChatIds :
         Telegram("send_telegram_message", reply,
                  send_telegram_message("message", chat_id, reply))

SendGameResult ==
    /\ component = "telegram"
    /\ Len(hist) < MaxPosts
    /\ \E reply \in Replies, chat_id \in ChatIds, game_result \in {"complete", "incomplete"} :
         \E message \in {format_game_message(game_result)} :
            Telegram("send_game_result", reply,
                     IF message = None THEN Raised
                     ELSE send_telegram_message(message[1], chat_id, reply))

SendDaemonStart ==
    /\ component = "telegram"
    /\ Len(hist) < MaxPosts
    /\ \E reply \in Replies, chat_id \in ChatIds :
         Telegram("send_daemon_start", reply,
                  send_telegram_message("KENO DUEL DAEMON STARTED", chat_id, reply))

SendDaemonError ==
    /\ component = "telegram"
    /\ Len(hist) < MaxPosts
    /\ \E reply \in Replies, chat_id \in ChatIds :
         Telegram("send_daemon_error", reply,
                  send_telegram_message("KENO DUEL ERROR", chat_id, reply))

SendLeaderboard ==
    /\ component = "telegram"
    /\ Len(hist) < MaxPosts
    /\ \E reply \in Replies, chat_id \in ChatIds, data \in {"well_formed", "malformed"} :
         \E message \in {format_leaderboard_message(data)} :
            Telegram("send_leaderboard", reply,
                     IF message = None THEN Raised
                     ELSE send_telegram_message(message[1], chat_id, reply))

TestConnection ==
    /\ component = "telegram"
    /\ Len(hist) < MaxPosts
    /\ \E reply \in Replies :
         Telegram("test_connection", reply,
                  send_telegram_message("KENO DUEL TEST", None, reply))

NextTelegram ==
    \/ SendTelegramMessage
    \/ SendGameResult
    \/ SendDaemonStart
    \/ SendDaemonError
    \/ SendLeaderboard
    \/ TestConnection

InitTelegram ==
    /\ component = "telegram"
    /\ ScraperInit
    /\ TrackerInit
    /\ RulesInit
    /\ SourceIdle
    /\ EntryIdle

SpecTelegram == InitTelegram /\ [][NextTelegram]_vars

\* ---------------------------------------------------------------------
\* Properties of the notifications (checked under SpecTelegram)
\* ---------------------------------------------------------------------
TelegramCalls == {"send_telegram_message", "send_game_result", "send_daemon_start",
                  "send_daemon_error", "send_leaderboard", "test_connection"}

\* the reply held a body that is an object whose "ok" is true (or another
\* value Python takes for true)
OkIsTrue(reply) ==
    /\ reply.kind = "object"
    /\ reply.ok \in {Some([t |-> "bool", v |-> TRUE]), Some([t |-> "int", v |-> 1]),
                     Some([t |-> "str", v |-> "ok"])}

\* C13: send_telegram_message never raises; it returns True only when the
\* body's ok field is true, and False when the endpoint is unreachable, the
\* transport raises, the body is not parseable, or ok is falsy or missing.
\* send_game_result, send_daemon_start, send_daemon_error, send_leaderboard
\* and test_connection return the boolean of the one send they make (a
\* wrapper that fails while formatting its message has made no send).
C13_SendReturnsOkOrFalse ==
    /\ [](out.fn = "send_telegram_message" =>
            /\ out.result.returned # None
            /\ out.result.returned = Some(OkIsTrue(out.result.arg)))
    /\ []((out.fn \in TelegramCalls /\ out.result.request # None) =>
            /\ out.result.returned # None
            /\ out.result.returned = Some(OkIsTrue(out.result.arg)))
    /\ []((out.fn \in TelegramCalls /\ out.result.request = None) =>
            out.fn \in {"send_game_result", "send_leaderboard"})
    /\ [][(out'.fn \in TelegramCalls) =>
            IF out'.result.request = None THEN hist' = hist
            ELSE hist' = Append(hist, out'.result.request[1])]_vars

\* send_daemon_error was called while the endpoint could not be reached and
\* returned False
C13_UnreachableGivesFalse ==
    /\ out.fn = "send_daemon_error"
    /\ out.result.arg.kind = "unreachable"
    /\ out.result.returned = Some(FALSE)
    /\ Len(hist) = 2

\* ======================================================================
\* HybridGameSource (keno_hybrid_source.py)
\* ======================================================================
MaxTableRows == 3
MaxManual == 1

Reverse(s) == [i \in 1..Len(s) |-> s[Len(s) + 1 - i]]

\* sorted(list) of a list of ints
sorted(s) == StableSort(s, [x \in Range(s) |-> <<x, 0>>])

\* Rows of games/games.csv: a row holds its game_id and the values of its
\* number_1..number_20 cells that int() accepts, in cell order.  Two complete
\* rows (numbers not in ascending order) and one row with an empty cell.
SourceRows ==
    {[game_id |-> 1, date |-> D1, numbers |-> Reverse(Ascending(DrawA))],
     [game_id |-> 2, date |-> D1, numbers |-> Reverse(Ascending(DrawD))],
     [game_id |-> 3, date |-> D1, numbers |-> Take(Ascending(DrawC), 19)]}

\* the tables _load_games may find, sorted by datetime (game ids cycle, so
\* the latest row need not hold the greatest id); the table holds no row twice
SourceTables ==
    {df \in SeqsUpTo(SourceRows, MaxTableRows) :
        \A i, j \in 1..Len(df) : i # j => df[i] # df[j]}

\* the lists an operator may hand to add_manual_game
ManualLists ==
    {Reverse(Ascending(DrawA)),                 \* 20 numbers of 1..80
     [i \in 1..20 |-> 5],                       \* 20 numbers, all the same
     Take(Ascending(DrawA), 19),                \* 19 numbers
     Ascending(DrawA) \o <<80>>,                \* 21 numbers
     <<0>> \o Take(Ascending(DrawA), 19),       \* 20 numbers, one below 1
     Take(Ascending(DrawA), 19) \o <<81>>}      \* 20 numbers, one above 80

SourceIds == 0..3

\* _load_state
source_load_state(file) ==
    IF file = None THEN [last_game_id |-> 0, manual_entries |-> <<>>] ELSE file[1]

\* the record get_latest_game and get_new_games_since build from a row
source_game(row) ==
    [game_id |-> row.game_id, drawn |-> sorted(row.numbers), date |-> row.date]

\* get_latest_game(): the record, or None
get_latest_game(df) ==
    IF Len(df) = 0 THEN None
    ELSE IF Len(df[Len(df)].numbers) # 20 THEN None
    ELSE Some(source_game(df[Len(df)]))

\* get_new_games_since(last_game_id), the loop over the rows from i on
RECURSIVE get_new_games_since(_, _, _)
get_new_games_since(df, i, last) ==
    IF i > Len(df) THEN <<>>
    ELSE IF df[i].game_id > last /\ Len(df[i].numbers) = 20
         THEN <<source_game(df[i])>> \o get_new_games_since(df, i + 1, last)
         ELSE get_new_games_since(df, i + 1, last)

\* add_manual_game that takes the entered game for the last one processed
add_manual_game_advancing(st, game_id, drawn) ==
    IF Len(drawn) # 20 THEN [ok |-> FALSE, state |-> st]
    ELSE IF ~(\A k \in 1..Len(drawn) : 1 <= drawn[k] /\ drawn[k] <= 80)
    THEN [ok |-> FALSE, state |-> st]
    ELSE [ok |-> TRUE,
          state |-> [last_game_id |-> game_id,
                     manual_entries |->
                        Append(st.manual_entries,
                               [game_id |-> game_id, drawn |-> sorted(drawn),
                                timestamp |-> "now"])]]

\* add_manual_game that counts the numbers and does not look at their range
add_manual_game_any_range(st, game_id, drawn) ==
    IF Len(drawn) # 20 THEN [ok |-> FALSE, state |-> st]
    ELSE [ok |-> TRUE,
          state |-> [st EXCEPT !.manual_entries =
                        Append(@, [game_id |-> game_id, drawn |-> sorted(drawn),
                                   timestamp |-> "now"])]]

\* add_manual_game(game_id, drawn): [ok, state]
add_manual_game(st, game_id, drawn) ==
    IF Len(drawn) # 20 THEN [ok |-> FALSE, state |-> st]
    ELSE IF ~(\A k \in 1..Len(drawn) : 1 <= drawn[k] /\ drawn[k] <= 80)
    THEN [ok |-> FALSE, state |-> st]
    ELSE [ok |-> TRUE,
          state |-> [st EXCEPT !.manual_entries =
                        Append(@, [game_id |-> game_id, drawn |-> sorted(drawn),
                                   timestamp |-> "now"])]]

\* get_manual_game(game_id): the first entry with the id, or None
get_manual_game(st, game_id) ==
    LET found == {k \in 1..Len(st.manual_entries) : st.manual_entries[k].game_id = game_id}
    IN IF found = {} THEN None ELSE Some(st.manual_entries[First(found)])

\* check_for_updates that returns the new games and keeps the checkpoint
check_for_updates_unadvanced(df, st) ==
    IF Len(df) = 0 THEN [new_games |-> <<>>, state |-> st, saved |-> FALSE]
    ELSE IF df[Len(df)].game_id > st.last_game_id
    THEN [new_games |-> get_new_games_since(df, 1, st.last_game_id),
          state |-> st, saved |-> TRUE]
    ELSE [new_games |-> <<>>, state |-> st, saved |-> FALSE]

\* check_for_updates(): [new_games, state, saved]
check_for_updates(df, st) ==
    IF Len(df) = 0 THEN [new_games |-> <<>>, state |-> st, saved |-> FALSE]
    ELSE LET latest_id == df[Len(df)].game_id
             last_id == st.last_game_id
         IN IF latest_id > last_id
            THEN [new_games |-> get_new_games_since(df, 1, last_id),
                  state |-> [st EXCEPT !.last_game_id = latest_id],
                  saved |-> TRUE]
            ELSE [new_games |-> <<>>, state |-> st, saved |-> FALSE]

\* HybridGameSource(): the state file and the table are loaded
Construct ==
    /\ component = "hybrid"
    /\ \E df \in SourceTables : games_df' = df
    /\ state' = source_load_state(source_state)
    /\ called' = Call("init", <<>>, <<>>)
    /\ UNCHANGED <<source_state, delivered>>
    /\ UNCHANGED not_hybrid

Constructed == called.op # "none"

GetLatestGame ==
    /\ component = "hybrid"
    /\ Constructed
    /\ called' = Call("get_latest_game", <<>>, get_latest_game(games_df))
    /\ UNCHANGED <<games_df, state, source_state, delivered>>
    /\ UNCHANGED not_hybrid

GetNewGamesSince ==
    /\ component = "hybrid"
    /\ Constructed
    /\ \E id \in SourceIds :
         called' = Call("get_new_games_since", id, get_new_games_since(games_df, 1, id))
    /\ UNCHANGED <<games_df, state, source_state, delivered>>
    /\ UNCHANGED not_hybrid

AddManualGame ==
    /\ component = "hybrid"
    /\ Constructed
    /\ Len(state.manual_entries) < MaxManual
    /\ \E game_id \in {1, 2}, drawn \in ManualLists :
       \E added \in {add_manual_game(state, game_id, drawn)} :
            /\ state' = added.state
            /\ source_state' = IF added.ok THEN Some(added.state) ELSE source_state
            /\ called' = Call("add_manual_game", [game_id |-> game_id, drawn |-> drawn],
                              added.ok)
    /\ UNCHANGED <<games_df, delivered>>
    /\ UNCHANGED not_hybrid

GetManualGame ==
    /\ component = "hybrid"
    /\ Constructed
    /\ \E game_id \in {1, 2} :
         called' = Call("get_manual_game", game_id, get_manual_game(state, game_id))
    /\ UNCHANGED <<games_df, state, source_state, delivered>>
    /\ UNCHANGED not_hybrid

CheckForUpdates ==
    /\ component = "hybrid"
    /\ Constructed
    /\ \E checked \in {check_for_updates(games_df, state)} :
            /\ state' = checked.state
            /\ source_state' = IF checked.saved THEN Some(checked.state) ELSE source_state
            /\ called' = Call("check_for_updates", <<>>, checked.new_games)
    /\ UNCHANGED <<games_df, delivered>>
    /\ UNCHANGED not_hybrid

NextHybrid ==
    \/ Construct
    \/ GetLatestGame
    \/ GetNewGamesSince
    \/ AddManualGame
    \/ GetManualGame
    \/ CheckForUpdates

InitHybrid ==
    /\ component = "hybrid"
    /\ ScraperInit
    /\ TrackerInit
    /\ RulesInit
    /\ SourceIdle
    /\ EntryIdle

SpecHybrid == InitHybrid /\ [][NextHybrid]_vars

\* ---------------------------------------------------------------------
\* Properties of the hybrid source (checked under SpecHybrid)
\* ---------------------------------------------------------------------
\* the positions of the complete rows whose game_id is above id
RowsAbove(id) ==
    {i \in 1..Len(games_df) : games_df[i].game_id > id /\ Len(games_df[i].numbers) = 20}

\* list is the rows at the positions Q, in table order, each with its
\* game_id and its 20 numbers in ascending order
IsDelta(list, Q) ==
    /\ Len(list) = Cardinality(Q)
    /\ \A i \in Q :
         LET game == list[Cardinality({j \in Q : j <= i})]
         IN /\ game.game_id = games_df[i].game_id
            /\ Len(game.drawn) = 20
            /\ Range(game.drawn) = Range(games_df[i].numbers)
            /\ \A k \in 1..19 : game.drawn[k] <= game.drawn[k + 1]

\* C14: when the latest row's game_id is greater than last_game_id,
\* check_for_updates returns exactly the complete rows whose game_id is
\* greater than the old last_game_id and sets last_game_id (in memory and in
\* the state file) to the latest row's game_id; otherwise it returns an empty
\* list and leaves the checkpoint as it was.  A call that follows another
\* call of check_for_updates returns an empty list.
C14_DeltaThenEmpty ==
    [][called'.op = "check_for_updates" =>
         /\ IF Len(games_df) > 0 /\ games_df[Len(games_df)].game_id > state.last_game_id
            THEN /\ IsDelta(called'.value, RowsAbove(state.last_game_id))
                 /\ state'.last_game_id = games_df[Len(games_df)].game_id
                 /\ state'.manual_entries = state.manual_entries
                 /\ source_state' = Some(state')
            ELSE /\ called'.value = <<>>
                 /\ state' = state
                 /\ source_state' = source_state
         /\ called.op = "check_for_updates" => called'.value = <<>>]_vars

\* with last_game_id 1 and the table holding row 1, the incomplete row 3 and
\* row 2 as the latest, check_for_updates returned row 2 alone
C14_ReturnedRowTwoAlone ==
    /\ called.op = "check_for_updates"
    /\ Len(games_df) = 3
    /\ games_df[1].game_id = 1 /\ games_df[2].game_id = 3 /\ games_df[3].game_id = 2
    /\ Len(called.value) = 1
    /\ called.value[1].game_id = 2
    /\ state.last_game_id = 2

ReadingCalls == {"get_latest_game", "get_new_games_since", "get_manual_game"}

\* C15 as stated: get_latest_game, get_new_games_since, get_manual_game and
\* add_manual_game leave the checkpoint state, in memory (.state) and as
\* persisted (the state file), unchanged; only check_for_updates changes it.
C15_OnlyCheckMutatesState ==
    [][/\ (called'.op \in ReadingCalls \cup {"add_manual_game"}) =>
              (state' = state /\ source_state' = source_state)
       /\ (state' # state \/ source_state' # source_state) =>
              called'.op = "check_for_updates"]_vars

\* C15 amended: check_for_updates is the only operation that changes
\* last_game_id, in memory or in the state file; get_latest_game,
\* get_new_games_since and get_manual_game leave the state and the state file
\* as they were; add_manual_game leaves last_game_id as it was, and on
\* success appends to manual_entries and rewrites the state file.
C15_OnlyCheckMutatesLastGameId ==
    [][/\ (called'.op \in ReadingCalls) =>
              (state' = state /\ source_state' = source_state)
       /\ (called'.op = "add_manual_game") =>
              /\ state'.last_game_id = state.last_game_id
              /\ source_load_state(source_state').last_game_id
                     = source_load_state(source_state).last_game_id
              /\ IsPrefix(state.manual_entries, state'.manual_entries)
              /\ called'.value = FALSE =>
                     (state' = state /\ source_state' = source_state)
       /\ (\/ state'.last_game_id # state.last_game_id
           \/ source_load_state(source_state').last_game_id
                  # source_load_state(source_state).last_game_id) =>
              called'.op = "check_for_updates"]_vars

\* a manual game was added after check_for_updates had moved last_game_id
\* to 2: the state file holds the entry and the same last_game_id
C15_ManualEntryBesideCheckpoint ==
    /\ called.op = "add_manual_game"
    /\ called.value = TRUE
    /\ state.last_game_id = 2
    /\ Len(state.manual_entries) = 1
    /\ source_state = Some(state)

\* list2 holds the values of list1, each as often, in ascending order
SortedCopy(list1, list2) ==
    /\ Len(list2) = Len(list1)
    /\ \A n \in 0..81 :
         Cardinality({k \in 1..Len(list1) : list1[k] = n})
             = Cardinality({k \in 1..Len(list2) : list2[k] = n})
    /\ \A k \in 1..(Len(list2) - 1) : list2[k] <= list2[k + 1]

\* C16: add_manual_game returns False, without raising, and leaves
\* manual_entries and the state file as they were when the list does not
\* hold exactly 20 numbers or holds a number outside 1..80; otherwise it
\* returns True and appends exactly one entry with the given game_id and the
\* numbers in ascending order, and the state file holds the new state.  A
\* get_manual_game(game_id) for an id that has an entry returns an entry
\* with that id.
C16_ManualEntryValidated ==
    [][/\ (called'.op = "add_manual_game") =>
              LET drawn == called'.arg.drawn
              IN IF Len(drawn) = 20 /\ \A k \in 1..Len(drawn) : drawn[k] \in 1..80
                 THEN /\ called'.value = TRUE
                      /\ Len(state'.manual_entries) = Len(state.manual_entries) + 1
                      /\ IsPrefix(state.manual_entries, state'.manual_entries)
                      /\ state'.manual_entries[Len(state'.manual_entries)].game_id
                             = called'.arg.game_id
                      /\ SortedCopy(drawn,
                             state'.manual_entries[Len(state'.manual_entries)].drawn)
                      /\ source_state' = Some(state')
                 ELSE /\ called'.value = FALSE
                      /\ state' = state
                      /\ source_state' = source_state
       /\ (called'.op = "get_manual_game") =>
              IF \E k \in 1..Len(state.manual_entries) :
                     state.manual_entries[k].game_id = called'.arg
              THEN called'.value # None /\ called'.value[1].game_id = called'.arg
              ELSE called'.value = None]_vars

\* get_manual_game(1) returned the entry add_manual_game(1, ...) had filed
\* from a list given in descending order
C16_EntryFoundAfterAdd ==
    /\ called.op = "get_manual_game"
    /\ called.arg = 1
    /\ called.value # None
    /\ called.value[1].drawn = Ascending(DrawA)

\* ======================================================================
\* The entry points: main() and run() of simple_keno_scraper,
\* keno_live_tracker and keno_multi_strategy.  entry.pc is the position of
\* the one thread: "main" before the object is built, "mode" inside the call
\* a one-shot mode makes, "run_once" and "sleep" inside run()'s loop,
\* "after_loop" at run()'s own driver.quit(), "main_quit" at main()'s, and
\* "exit" when main() has returned or an exception has left it.
\* ======================================================================
MaxCycles == 3

EntryPrograms == {"scraper", "live", "multi"}

\* the continuous run is mode "run"; the others are the flags of main()
EntryModes(program) ==
    CASE program = "scraper" -> {"live", "hist", "deep", "once", "run"}
      [] program = "live" -> {"once", "run"}
      [] program = "multi" -> {"analyze", "summary", "once", "run"}

\* how a call ends: it returns, or an exception, or the operator's
\* interrupt (Ctrl+C), leaves it
Outcomes == {"returns", "Exception", "KeyboardInterrupt"}

\* run() that lets an exception of a cycle end the loop
after_run_once_fatal(outcome) ==
    IF outcome = "returns" THEN "sleep" ELSE "after_loop"

\* try: self.run_once()  except KeyboardInterrupt: break
\* except Exception: print(...)
after_run_once(outcome) ==
    IF outcome = "KeyboardInterrupt" THEN "after_loop" ELSE "sleep"

\* time.sleep(interval) inside the outer try: the next turn of while True,
\* or except KeyboardInterrupt
after_sleep(outcome) ==
    IF outcome = "KeyboardInterrupt" THEN "after_loop" ELSE "run_once"

\* if self.driver: self.driver.quit()   (the attribute is left as it is)
driver_quit(e) ==
    [e EXCEPT !.quits = IF e.driver THEN @ + 1 ELSE @]

\* main(): the object is built, with a browser session or (no Selenium, or
\* Chrome does not start) without one, and the mode is entered
Main ==
    /\ component = "entry"
    /\ entry.pc = "main"
    /\ \E program \in EntryPrograms, driver_made \in BOOLEAN :
         \E mode \in EntryModes(program) :
            entry' = [entry EXCEPT !.program = program, !.mode = mode,
                                   !.driver = driver_made,
                                   !.pc = IF mode = "run" THEN "run_once" ELSE "mode"]
    /\ UNCHANGED not_entry

\* the call of a one-shot mode (get_current_game_id, fetch_historical_page,
\* fetch_historical_deep and check_and_save_new_games, run_once,
\* run_all_analyses, print_strategy_summary): main() has no try around it
RunMode ==
    /\ component = "entry"
    /\ entry.pc = "mode"
    /\ \E outcome \in Outcomes :
         entry' = [entry EXCEPT !.event = outcome,
                                !.pc = IF outcome = "returns" THEN "main_quit"
                                       ELSE "exit"]
    /\ UNCHANGED not_entry

\* one cycle of run()'s loop
LoopRunOnce ==
    /\ component = "entry"
    /\ entry.pc = "run_once"
    /\ \E outcome \in Outcomes :
         /\ outcome = "Exception" => entry.errors < MaxCycles
         /\ entry' = [entry EXCEPT !.event = outcome,
                                   !.cycles = @ + 1,
                                   !.errors = IF outcome = "Exception" THEN @ + 1 ELSE @,
                                   !.pc = after_run_once(outcome)]
    /\ UNCHANGED not_entry

\* the wait between two cycles
LoopSleep ==
    /\ component = "entry"
    /\ entry.pc = "sleep"
    /\ \E outcome \in {"returns", "KeyboardInterrupt"} :
         /\ outcome = "returns" => entry.cycles < MaxCycles
         /\ entry' = [entry EXCEPT !.event = outcome, !.pc = after_sleep(outcome)]
    /\ UNCHANGED not_entry

\* run() after its loop: if self.driver: self.driver.quit(), and return
RunQuit ==
    /\ component = "entry"
    /\ entry.pc = "after_loop"
    /\ entry' = [driver_quit(entry) EXCEPT !.pc = "main_quit"]
    /\ UNCHANGED not_entry

\* main() after the mode: if scraper.driver: scraper.driver.quit()
MainQuit ==
    /\ component = "entry"
    /\ entry.pc = "main_quit"
    /\ entry' = [driver_quit(entry) EXCEPT !.pc = "exit"]
    /\ UNCHANGED not_entry

NextEntry ==
    \/ Main
    \/ RunMode
    \/ LoopRunOnce
    \/ LoopSleep
    \/ RunQuit
    \/ MainQuit

InitEntry ==
    /\ component = "entry"
    /\ ScraperInit
    /\ TrackerInit
    /\ RulesInit
    /\ SourceIdle
    /\ EntryIdle

SpecEntry == InitEntry /\ [][NextEntry]_vars

InLoop == entry.pc \in {"run_once", "sleep"}

\* C17: in the polling loops of SimpleKenoScraper.run, KenoLiveTracker.run
\* and KenoMultiStrategy.run an exception raised by a cycle does not end the
\* loop: the loop goes on to its sleep, and from the sleep to another cycle.
\* Only the operator's interrupt takes the loop to its end, and a run that
\* was interrupted has called driver.quit() on the session it holds before
\* the program exits.
C17_LoopSurvivesException ==
    /\ [][/\ (entry.pc = "run_once" /\ entry'.event = "Exception") =>
                 entry'.pc = "sleep"
          /\ (entry.pc = "sleep" /\ entry'.event = "returns") =>
                 entry'.pc = "run_once"
          /\ (InLoop /\ ~InLoop') =>
                 (entry'.event = "KeyboardInterrupt" /\ entry'.pc = "after_loop")
          /\ (entry.pc = "after_loop" /\ entry.driver) =>
                 entry'.quits = entry.quits + 1]_vars
    /\ []((entry.mode = "run" /\ entry.pc = "exit" /\ entry.driver) =>
              entry.quits >= 1)

\* two cycles raised, a third ran, and the interrupted run released the
\* session
C17_ThirdCycleAfterTwoErrors ==
    /\ entry.mode = "run"
    /\ entry.errors = 2
    /\ entry.cycles = 3
    /\ entry.event = "KeyboardInterrupt"
    /\ entry.pc = "exit"
    /\ entry.driver
    /\ entry.quits >= 1

\* C18: on every path of an entry point (the continuous run ended by an
\* interrupt, run once, the test modes, the deep backfill) driver.quit() is
\* called exactly once on a session that was created: never twice, and once
\* when the entry point is left.
C18_QuitExactlyOnce ==
    entry.driver =>
        /\ entry.quits <= 1
        /\ entry.pc = "exit" => entry.quits = 1

\* ======================================================================
\* KenoAnalyzer (keno_multi_strategy.py): the reports over a draw list and
\* run_all_analyses.  hist is the list supplied, most recent draw first;
\* .history is the list of its number sets.
\* ======================================================================
MaxAnalyzerHist == 3

\* the methods class KenoAnalyzer defines
KenoAnalyzerMethods ==
    {"__init__", "pair_analysis", "print_pair_analysis", "repeat_analysis",
     "print_repeat_analysis", "balance_analysis", "print_balance_analysis",
     "row_col_heatmap", "print_row_col_heatmap", "monte_carlo_sim",
     "print_monte_carlo", "gap_chart", "run_all_analyses"}

\* the methods run_all_analyses calls, in its order
AnalysesCalled ==
    <<"print_pair_analysis", "print_repeat_analysis", "print_balance_analysis",
      "print_row_col_heatmap", "print_gap_chart", "print_monte_carlo">>

\* the same calls with the gap chart under the name the class gives it
AnalysesDefined ==
    <<"print_pair_analysis", "print_repeat_analysis", "print_balance_analysis",
      "print_row_col_heatmap", "gap_chart", "print_monte_carlo">>

\* the numbers run_all_analyses asks the gap chart for
GapChartNumbers == <<1, 7, 13, 22, 37, 44, 55, 68, 72, 80>>

\* pair_counts: how many draws hold both numbers of a pair
pair_analysis(history) ==
    LET pairs == UNION {{p \in history[i] \X history[i] : p[1] < p[2]} :
                           i \in 1..Len(history)}
    IN [p \in pairs |->
          Cardinality({i \in 1..Len(history) : p[1] \in history[i] /\ p[2] \in history[i]})]

\* repeats: the overlap of each draw with the one before it
repeat_analysis(history) ==
    [i \in 1..(Len(history) - 1) |-> Cardinality(history[i] \cap history[i + 1])]

\* odd and low counts of the first `window` draws
balance_analysis(history, window) ==
    [i \in 1..Min(window, Len(history)) |->
        [odd |-> Cardinality({n \in history[i] : n % 2 = 1}),
         low |-> Cardinality({n \in history[i] : n <= 40})]]

\* row_hits over the first `window` draws (rows 0..7)
row_col_heatmap(history, window) ==
    [r \in 0..(ROWS - 1) |->
        LET firsts == 1..Min(window, Len(history))
        IN Cardinality({<<i, n>> \in firsts \X (1..80) :
                           n \in history[i] /\ rc(n)[1] = r})]

\* hit_count of each number asked for, over the first `window` draws
gap_chart(history, numbers, window) ==
    [k \in 1..Len(numbers) |->
        Cardinality({i \in 1..Min(window, Len(history)) : numbers[k] \in history[i]})]

\* what a report shows; the Monte Carlo report simulates random sessions and
\* reads nothing of the history
analysis(name, history) ==
    CASE name = "print_pair_analysis" -> pair_analysis(history)
      [] name = "print_repeat_analysis" -> repeat_analysis(history)
      [] name = "print_balance_analysis" -> balance_analysis(history, 10)
      [] name = "print_row_col_heatmap" -> row_col_heatmap(history, 10)
      [] name = "gap_chart" -> gap_chart(history, GapChartNumbers, 30)
      [] OTHER -> <<>>

\* the calls made one after the other; a name the class does not define
\* raises AttributeError and ends the run
RECURSIVE run_analyses(_, _, _, _)
run_analyses(names, i, history, done) ==
    IF i > Len(names) THEN [reports |-> done, raised |-> None]
    ELSE IF names[i] \notin KenoAnalyzerMethods
    THEN [reports |-> done, raised |-> Some("AttributeError")]
    ELSE run_analyses(names, i + 1, history,
                      Append(done, [name |-> names[i],
                                    shown |-> analysis(names[i], history)]))

\* KenoAnalyzer(games).run_all_analyses()
run_all_analyses(gs) ==
    run_analyses(AnalysesCalled, 1, [i \in 1..Len(gs) |-> gs[i].numbers], <<>>)

\* a draw is put in front of the list to be supplied
AnalyzerSupplyDraw ==
    /\ component = "analyzer"
    /\ Len(hist) < MaxAnalyzerHist
    /\ \E d \in VacuumCatalogue : hist' = <<[numbers |-> d]>> \o hist
    /\ out' = Out("none", <<>>, 0)
    /\ UNCHANGED not_rules

\* KenoAnalyzer(hist).run_all_analyses()
RunAllAnalyses ==
    /\ component = "analyzer"
    /\ out.fn = "none"
    /\ \E ran \in {run_all_analyses(hist)} : out' = Out("run_all_analyses", ran, 1)
    /\ UNCHANGED hist
    /\ UNCHANGED not_rules

NextAnalyzer ==
    \/ AnalyzerSupplyDraw
    \/ RunAllAnalyses

InitAnalyzer ==
    /\ component = "analyzer"
    /\ ScraperInit
    /\ TrackerInit
    /\ RulesInit
    /\ SourceIdle
    /\ EntryIdle

SpecAnalyzer == InitAnalyzer /\ [][NextAnalyzer]_vars

\* C19: KenoAnalyzer.run_all_analyses runs all six reports (pair, repeat,
\* balance, row/column heat map, gap chart over the ten sample numbers,
\* Monte Carlo), in that order, and completes without raising, whatever the
\* draw list supplied.
C19_AllSixReportsRun ==
    out.fn = "run_all_analyses" =>
        /\ out.result.raised = None
        /\ [k \in 1..Len(out.result.reports) |-> out.result.reports[k].name]
               = AnalysesDefined

\* ======================================================================
\* The trackers across the rollover of the game ids: the draws 998 and 999
\* of one day and draw 1 of the next
\* ======================================================================
RolloverGames == {Game(998, D1), Game(999, D1), Game(1, D2)}
RolloverPages == SeqsUpTo(RolloverGames, MaxPageLen)

KT_ProcessRollover == KT_ProcessNewGameFed(RolloverGames)
LT_RunOnceRollover == LT_RunOnceShown(RolloverPages)
MS_RunOnceRollover == MS_RunOnceShown(RolloverPages)

NextRollover ==
    \/ KT_ProcessRollover
    \/ LT_RunOnceRollover
    \/ MS_RunOnceRollover

InitRollover ==
    /\ component \in {"tracker", "live", "multi"}
    /\ ScraperInit
    /\ TrackerInit
    /\ RulesInit
    /\ SourceIdle
    /\ EntryIdle

SpecRollover == InitRollover /\ [][NextRollover]_vars

\* the id after g on a counter that runs 1..999 and starts over
Following(g) == (g % 999) + 1

\* the predictions a call appended
Filed == SubSeq(predictions', Len(predictions) + 1, Len(predictions'))

\* C20: every prediction filed while a draw with game_id g in 1..999 is
\* processed has game_id g + 1, and 1 when g = 999, so that it lies in
\* 1..999: the one KenoTracker.process_new_game files, the one
\* KenoLiveTracker.process_new_games files for each new draw, and those
\* KenoMultiStrategy.add_game files, one for each of the eleven strategies.
C20_PredictionTargetsNextId ==
    [][/\ (component = "tracker" /\ result'.op = "process_new_game") =>
              /\ Len(Filed) = 1
              /\ Filed[1].game_id = Following(result'.arg.game_id)
              /\ Filed[1].game_id \in 1..999
       /\ (component \in {"live", "multi"} /\ result'.op = "run_once") =>
              /\ Len(Filed) = Len(result'.value)
              /\ \A i \in 1..Len(Filed) :
                    /\ Filed[i].game_id = Following(result'.value[i].game.game_id)
                    /\ Filed[i].game_id \in 1..999
       /\ (component = "multi" /\ result'.op = "run_once") =>
              \A i \in 1..Len(result'.value) :
                 /\ Cardinality(DOMAIN result'.value[i].filed) = 11
                 /\ \A strategy \in DOMAIN result'.value[i].filed :
                       result'.value[i].filed[strategy]
                           = Following(result'.value[i].game.game_id)]_vars

\* a run of the multi-strategy tracker took in draw 999 and then draw 1,
\* and filed predictions for game 1 and for game 2
C20_FiledAcrossRollover ==
    /\ component = "multi"
    /\ result.op = "run_once"
    /\ Len(result.value) = 2
    /\ result.value[1].game.game_id = 999
    /\ result.value[1].filed["arrow"] = 1
    /\ result.value[2].game.game_id = 1
    /\ Len(predictions) >= 2
    /\ predictions[Len(predictions) - 1].game_id = 1
    /\ predictions[Len(predictions)].game_id = 2

\* ======================================================================
\* KenoTracker and KenoMultiStrategy over two cycles of the game ids: the
\* draws 1 and 2 of one date and the draws 1 and 2 of a later one
\* ======================================================================
RecurringPages == SeqsUpTo(Games, MaxPageLen)

KT_ProcessRecurring == KT_ProcessNewGameFed(Games)
MS_RunOnceRecurring == MS_RunOnceShown(RecurringPages)

NextRecurring ==
    \/ KT_ProcessRecurring
    \/ MS_RunOnceRecurring

InitRecurring ==
    /\ component \in {"tracker", "multi"}
    /\ ScraperInit
    /\ TrackerInit
    /\ RulesInit
    /\ SourceIdle
    /\ EntryIdle

SpecRecurring == InitRecurring /\ [][NextRecurring]_vars

\* the prediction filed last under game_id among preds
LastFiledFor(preds, game_id) ==
    preds[CHOOSE k \in 1..Len(preds) :
             /\ preds[k].game_id = game_id
             /\ \A j \in (k + 1)..Len(preds) : preds[j].game_id # game_id]

\* C21: when a draw arrives, the prediction scored is the one filed for that
\* draw (the prediction filed last under its game_id, when its predecessor
\* was processed) and the numbers it is scored against are the arriving
\* draw's, also when an earlier draw or an earlier prediction with the same
\* game_id is still held; for KenoTracker.process_new_game and
\* KenoMultiStrategy.add_game.
C21_ScoredForArrivingDraw ==
    [][/\ (component = "tracker" /\ result'.op = "process_new_game"
             /\ result'.value.score # None) =>
              /\ result'.value.score[1].actual = result'.arg.numbers
              /\ result'.value.score[1].predicted =
                     LastFiledFor(predictions, result'.arg.game_id).playable_numbers
       /\ (component = "multi" /\ result'.op = "run_once") =>
              \A i \in 1..Len(result'.value) :
                 result'.value[i].score # None =>
                    LET game == result'.value[i].game
                        filed == Take(predictions', Len(predictions) + i - 1)
                        picks == LastFiledFor(filed, game.game_id).picks
                    IN /\ result'.value[i].score[1].hits
                              = Cardinality(Range(picks) \cap game.numbers)
                       /\ result'.value[i].score[1].pick_count = Len(picks)]_vars

\* prev is the draw before game: the next id, on the same date or, across
\* midnight, on the earlier of the two dates (D1 is before D2)
Precedes(prev, game) ==
    /\ game.game_id = next_game_id(prev.game_id)
    /\ prev.date = game.date \/ (prev.date = D1 /\ game.date = D2)

\* the draws KenoLiveTracker processed before the i-th draw of a run
ProcessedBefore(results, i) ==
    [k \in 1..(i - 1) |-> results[i - k].game] \o self_games

\* C22: in KenoLiveTracker, a draw processed right after its predecessor
\* (the draw with the id before its own, in chronological order) is scored
\* against the prediction filed when the predecessor was processed, also
\* when its date differs from the predecessor's (first draw after midnight).
C22_ScoredAgainstPredecessorsPrediction ==
    [][(component = "live" /\ result'.op = "run_once") =>
          \A i \in 1..Len(result'.value) :
             LET results == result'.value
                 before == ProcessedBefore(results, i)
                 filed == Take(predictions', Len(predictions) + i - 1)
             IN (Len(before) > 0 /\ Precedes(before[1], results[i].game)) =>
                   /\ results[i].score # None
                   /\ CountedAgainst(results[i].score[1].hits,
                                     results[i].score[1].playable_count,
                                     filed[Len(filed)].playable_numbers,
                                     results[i].game.numbers)]_vars

\* ======================================================================
\* KenoLiveTracker's history across the turn of the ids and of the year
\* ======================================================================
\* dates are <<month, day, year>>
NewYearsEve == <<12, 31, 24>>
NewYearsDay == <<1, 1, 25>>

\* Four draws in the order they were drawn: the ids turn over from 999 to 1
\* during 12/31/24, and draw 2 is the first of 01/01/25.
Timeline ==
    <<Game(998, NewYearsEve), Game(999, NewYearsEve), Game(1, NewYearsEve),
      Game(2, NewYearsDay)>>

\* the date as the tables hold it, "%m/%d/%y"
date_str(date) ==
    LET two(n) == IF n < 10 THEN <<"0">> \o str(n) ELSE str(n)
    IN two(date[1]) \o <<"/">> \o two(date[2]) \o <<"/">> \o two(date[3])

\* ord() of the characters of a date
CharCode(c) == IF c = "/" THEN 47 ELSE 48 + DigitValue(c)

\* text1 < text2 as Python compares two str
RECURSIVE text_less(_, _)
text_less(text1, text2) ==
    IF text2 = <<>> THEN FALSE
    ELSE IF text1 = <<>> THEN TRUE
    ELSE IF text1[1] = text2[1] THEN text_less(Tail(text1), Tail(text2))
    ELSE CharCode(text1[1]) < CharCode(text2[1])

\* self.games.sort(key=lambda g: (g['date'], g['game_id']), reverse=True):
\* the date of a key is a str; its place among the dates of the list stands
\* for it
lt_load_sort(gs) ==
    LET place(date) ==
            Cardinality({g \in Range(gs) : text_less(date_str(g.date), date_str(date))})
    IN StableSort(gs, [g \in Range(gs) |-> <<0 - place(g.date), 0 - g.game_id>>])

\* A page of the historical site: up to MaxPageLen successive draws, the
\* oldest or the newest of them first.
HistoryPages ==
    LET runs == {SubSeq(Timeline, a, b) :
                    a \in 1..Len(Timeline),
                    b \in 1..Len(Timeline)}
        shown == {r \in runs : Len(r) >= 1 /\ Len(r) <= MaxPageLen}
    IN shown \cup {Reverse(r) : r \in shown}

LT_RunOnceTimeline == LT_RunOnceShown(HistoryPages)

NextHistory == LT_RunOnceTimeline

\* KenoLiveTracker(): games.csv holds the first draws of the timeline in the
\* order they were appended, the checkpoint holds their keys, no prediction
\* has been filed
InitHistory ==
    /\ component = "live"
    /\ \E n \in 0..Len(Timeline) :
         /\ games_csv = [exists |-> n > 0, rows |-> Take(Timeline, n)]
         /\ seen_games = {unique_key(Timeline[k]) : k \in 1..n}
         /\ self_games = lt_load_sort(Take(Timeline, n))
    /\ last_game_id \in {0, 999}
    /\ last_game_id = 0 <=> games_csv.rows = <<>>
    /\ state_file = save_state(last_game_id, seen_games)
    /\ driver = FALSE
    /\ page_source = <<>>
    /\ clicks = 0
    /\ pc = "idle"
    /\ deep = DeepIdle
    /\ ret = Ret("init", <<>>, 0)
    /\ predictions = <<>>
    /\ scores = <<>>
    /\ predictions_csv = <<>>
    /\ scores_csv = <<>>
    /\ result = Call("init", <<>>, <<>>)
    /\ RulesInit
    /\ SourceIdle
    /\ EntryIdle

SpecHistory == InitHistory /\ [][NextHistory]_vars

\* the place of a draw in the timeline
DrawnAt(game) == CHOOSE k \in 1..Len(Timeline) : Timeline[k] = game

\* C23: KenoLiveTracker's history is in reverse chronological order
\* (position 1 = the most recent draw) after loading and after every
\* process_new_games call, for draws on both sides of a 999-to-1 rollover
\* within one date, draws spanning a year change, and a batch the
\* historical page delivers newest first.
C23_HistoryNewestFirst ==
    \A i, j \in 1..Len(self_games) :
        i < j => DrawnAt(self_games[i]) > DrawnAt(self_games[j])

\* ======================================================================
\* The rules that mark a number, as get_playable_numbers collects them
\* ======================================================================
\* KenoTracker.get_playable_numbers: remove_reasons of every number
TrackerReasons ==
    /\ component = "rules"
    /\ out.fn = "none"
    /\ \E reasons \in {[n \in Numbers |-> kt_remove_reasons(hist, n)]} :
         out' = Out("tracker_reasons", reasons, 1)
    /\ UNCHANGED hist
    /\ UNCHANGED not_rules

\* KenoLiveTracker.get_playable_numbers: reasons of every number
LiveReasons ==
    /\ component = "rules"
    /\ out.fn = "none"
    /\ \E reasons \in {[n \in Numbers |-> lt_reasons(hist, n)]} :
         out' = Out("live_reasons", reasons, 1)
    /\ UNCHANGED hist
    /\ UNCHANGED not_rules

NextReasons ==
    \/ PushDraw
    \/ TrackerReasons
    \/ LiveReasons

SpecReasons == InitRules /\ [][NextReasons]_vars

\* num was hit in the last draw, in the 3rd-back and in the 4th-back draw
HitInOneThreeFour(num) ==
    \A pos \in {1, 3, 4} : pos <= Len(hist) /\ num \in hist[pos].numbers

\* C24: elimination rule 5 marks a number exactly when it was hit in the
\* last draw and in the 3rd-back draw and in the 4th-back draw; a number hit
\* in only one or two of those positions is not marked by rule 5.
C24_RuleFiveNeedsAllThree ==
    /\ out.fn = "tracker_reasons" =>
          \A num \in Numbers :
             ("pattern_1_3_4" \in out.result[num]) <=> HitInOneThreeFour(num)
    /\ out.fn = "live_reasons" =>
          \A num \in Numbers :
             ("pattern134" \in out.result[num]) <=> HitInOneThreeFour(num)

\* ======================================================================
\* A cycle left by an exception part-way through its batch
\* (run()'s "except Exception" catches it and the loop goes on)
\* ======================================================================
\* KenoLiveTracker.run_once where process_new_games raises after `done`
\* draws of the batch went through the loop body: fetch_historical_games has
\* put every fetched key into self.seen_games, and each add_game that ran
\* has written the whole of self.seen_games to the checkpoint
LT_RunOnceRaised ==
    /\ component = "live"
    /\ \E page \in TrackerPages :
       \E fetched \in {lt_fetch_loop(page, 1, [games |-> <<>>, seen |-> seen_games])} :
       \E done \in 0..(Len(fetched.games) - 1) :
       \E st \in {lt_process_loop(Take(fetched.games, done), 1, fetched.seen,
                       [games |-> self_games, predictions |-> predictions,
                        scores |-> scores, predictions_csv |-> predictions_csv,
                        scores_csv |-> scores_csv, games_csv |-> games_csv,
                        last_game_id |-> last_game_id, state_file |-> state_file,
                        results |-> <<>>])} :
            /\ seen_games' = fetched.seen
            /\ self_games' = st.games
            /\ predictions' = st.predictions
            /\ scores' = st.scores
            /\ predictions_csv' = st.predictions_csv
            /\ scores_csv' = st.scores_csv
            /\ games_csv' = st.games_csv
            /\ last_game_id' = st.last_game_id
            /\ state_file' = st.state_file
            /\ result' = Call("run_once_raised", Shown(page), st.results)
    /\ UNCHANGED not_tracker

\* KenoMultiStrategy.run_once where the loop over the batch raises after
\* `done` calls of add_game
MS_RunOnceRaised ==
    /\ component = "multi"
    /\ \E page \in TrackerPages :
       \E fetched \in {ms_fetch_loop(page, 1, [games |-> <<>>, seen |-> seen_games])} :
       \E done \in 0..(Len(fetched.games) - 1) :
       \E st \in {ms_add_loop(Take(fetched.games, done), 1,
                       [games |-> self_games, seen |-> fetched.seen,
                        predictions |-> predictions, scores |-> scores,
                        results |-> <<>>])} :
       \E added \in {done > 0} :
            /\ seen_games' = st.seen
            /\ self_games' = st.games
            /\ predictions' = st.predictions
            /\ scores' = st.scores
            /\ predictions_csv' = IF added THEN ms_save_predictions(st.predictions)
                                  ELSE predictions_csv
            /\ scores_csv' = IF added THEN ms_save_scores(st.scores) ELSE scores_csv
            /\ state_file' = IF added THEN [state_file EXCEPT !.seen_games = st.seen]
                             ELSE state_file
            /\ result' = Call("run_once_raised", Shown(page), st.results)
    /\ UNCHANGED <<last_game_id, games_csv>>
    /\ UNCHANGED not_tracker

NextCycles ==
    \/ LT_RunOnce
    \/ LT_RunOnceRaised
    \/ MS_RunOnce
    \/ MS_RunOnceRaised

InitCycles ==
    /\ component \in {"live", "multi"}
    /\ ScraperInit
    /\ TrackerInit
    /\ RulesInit
    /\ SourceIdle
    /\ EntryIdle

SpecCycles == InitCycles /\ [][NextCycles]_vars

\* C25: in every state of the live and of the multi-strategy tracker, after
\* a cycle left by an exception too, each key of seen_games, in memory and
\* in the checkpoint, is the key of a draw that is in the history and in the
\* canonical draw table.
C25_SeenOnlyPersisted ==
    \A key \in seen_games \cup state_file.seen_games :
        /\ key \in KeysOf(self_games)
        /\ key \in KeysOf(games_csv.rows)

\* C26: KenoTracker.process_new_game called with a draw whose identity
\* (game_id, date) is already held reports is_new = false and leaves the
\* games list, the predictions table and the scores table unchanged.
C26_DuplicateLeavesTablesAlone ==
    [][(/\ component = "tracker"
        /\ result'.op = "process_new_game"
        /\ unique_key(result'.arg) \in KeysOf(self_games))
       => (/\ result'.value.is_new = FALSE
           /\ self_games' = self_games
           /\ predictions' = predictions
           /\ scores' = scores)]_vars

\* ======================================================================
\* A consumer polling HybridGameSource.check_for_updates while the scraper
\* appends draws to games/games.csv
\* ======================================================================
\* the rows the scraper appends, in chronological order: the last draws of a
\* cycle of game ids and the first ones of the next; the third row has an
\* empty cell (the scraper's row for 998 written a second time, cut short)
FeedTimeline ==
    <<[game_id |-> 997, date |-> D1, numbers |-> Reverse(Ascending(DrawD))],
      [game_id |-> 998, date |-> D1, numbers |-> Reverse(Ascending(DrawA))],
      [game_id |-> 998, date |-> D1, numbers |-> Take(Ascending(DrawC), 19)],
      [game_id |-> 999, date |-> D1, numbers |-> Reverse(Ascending(DrawD))],
      [game_id |-> 1, date |-> D2, numbers |-> Reverse(Ascending(DrawC))],
      [game_id |-> 2, date |-> D2, numbers |-> Reverse(Ascending(DrawB))],
      [game_id |-> 3, date |-> D2, numbers |-> Reverse(Ascending(DrawC))]>>

\* rows were appended to the table and a HybridGameSource is constructed
\* on it: _load_games reads the table (the rows are in datetime order as
\* appended), _load_state reads the state file
ReloadGrown ==
    /\ component = "hybrid"
    /\ Len(games_df) < Len(FeedTimeline)
    /\ \E n \in (Len(games_df) + 1)..Len(FeedTimeline) :
         games_df' = SubSeq(FeedTimeline, 1, n)
    /\ state' = source_load_state(source_state)
    /\ called' = Call("init", <<>>, <<>>)
    /\ UNCHANGED <<source_state, delivered>>
    /\ UNCHANGED not_hybrid

\* the consumer calls check_for_updates() and takes what it returns
PollUpdates ==
    /\ component = "hybrid"
    /\ Constructed
    /\ \E checked \in {check_for_updates(games_df, state)} :
            /\ state' = checked.state
            /\ source_state' = IF checked.saved THEN Some(checked.state) ELSE source_state
            /\ called' = Call("check_for_updates", <<>>, checked.new_games)
            /\ delivered' = delivered \o checked.new_games
    /\ UNCHANGED games_df
    /\ UNCHANGED not_hybrid

NextFeed ==
    \/ ReloadGrown
    \/ PollUpdates
    \/ GetLatestGame
    \/ GetNewGamesSince

InitFeed ==
    /\ component = "hybrid"
    /\ ScraperInit
    /\ TrackerInit
    /\ RulesInit
    /\ SourceIdle
    /\ EntryIdle

SpecFeed == InitFeed /\ [][NextFeed]_vars

\* how many times the draw of row was handed to the consumer
TimesDelivered(row) ==
    Cardinality({k \in 1..Len(delivered) :
                    /\ delivered[k].game_id = row.game_id
                    /\ delivered[k].date = row.date})

\* C27: across successive check_for_updates calls, the table reloaded between
\* calls as draws are appended in chronological order, every appended
\* complete draw is returned by exactly one call: none is returned twice,
\* and once a call has returned none of the table's complete draws is left
\* out, the draws after the rollover of game_id from 999 to 1 included.
C27_EachDrawReturnedOnce ==
    \A i \in 1..Len(games_df) :
        Len(games_df[i].numbers) = 20 =>
            /\ TimesDelivered(games_df[i]) <= 1
            /\ called.op = "check_for_updates" => TimesDelivered(games_df[i]) = 1

\* ======================================================================
\* SimpleKenoScraper.run_once, cycle after cycle
\* ======================================================================
NextPoll == RunOnceShown

InitPoll ==
    /\ component = "scraper"
    /\ ScraperInit
    /\ TrackerInit
    /\ RulesInit
    /\ SourceIdle
    /\ EntryIdle

SpecPoll == InitPoll /\ [][NextPoll]_vars

\* the keys of the complete draws a page shows that are not in seen
FreshKeys(page, seen) ==
    {unique_key(page[i]) : i \in {k \in 1..Len(page) :
                                     Cardinality(page[k].numbers) = BALLS_DRAWN}}
    \ seen

\* C28: run_once returns 0 and changes neither the canonical table nor the
\* checkpoint when the live game id equals the checkpoint's last_game_id; in
\* every other case (the live id differs, or could not be read) every draw of
\* the historical page whose key is not in seen_games is appended to the
\* table, once, and recorded in the checkpoint, and the number of rows
\* appended is returned.
C28_ShortcutOrPersistFresh ==
    [][ret'.op = "run_once" =>
         IF ret'.current_id # None /\ ret'.current_id[1] = last_game_id
         THEN /\ ret'.count = 0
              /\ games_csv' = games_csv
              /\ state_file' = state_file
              /\ seen_games' = seen_games
              /\ last_game_id' = last_game_id
         ELSE /\ IsPrefix(games_csv.rows, games_csv'.rows)
              /\ DistinctKeys(Appended)
              /\ KeysOf(Appended) = FreshKeys(ret'.games, seen_games)
              /\ Range(Appended) \subseteq Range(ret'.games)
              /\ ret'.count = Len(Appended)
              /\ seen_games' = seen_games \cup KeysOf(Appended)
              /\ state_file' = IF ret'.count > 0
                               THEN save_state(last_game_id', seen_games')
                               ELSE state_file]_vars

\* the live page showed the id of the checkpoint while the historical page
\* showed a draw not yet seen: nothing was fetched
C28_ShortcutTaken ==
    /\ ret.op = "run_once"
    /\ ret.current_id = Some(last_game_id)
    /\ FreshKeys(ret.games, seen_games) # {}
    /\ ret.count = 0

\* ======================================================================
\* KenoMultiStrategy.strategy_decade (keno_multi_strategy.py)
\* ======================================================================
MaxDecadeHist == 8

\* decades = [(1, 20), (21, 40), (41, 60), (61, 80)]
decades == <<<<1, 20>>, <<21, 40>>, <<41, 60>>, <<61, 80>>>>

\* decade_hits: (start, end, count) per band, count over self.games[:8]
decade_hits(games) ==
    [k \in 1..Len(decades) |->
        <<decades[k][1], decades[k][2],
          Cardinality({p \in (1..Min(8, Len(games))) \X (decades[k][1]..decades[k][2]) :
                          p[2] \in games[p[1]].numbers})>>]

\* min(decade_hits, key=lambda x: x[1]): the first entry whose second
\* component, the band's end, is the least
min_by_second(ds) ==
    ds[First({k \in 1..Len(ds) : \A j \in 1..Len(ds) : ds[k][2] <= ds[j][2]})]

\* the numbers of the bands of ds, band after band, ascending in each
RECURSIVE band_numbers(_, _)
band_numbers(ds, k) ==
    IF k > Len(ds) THEN <<>>
    ELSE Ascending(ds[k][1]..ds[k][2]) \o band_numbers(ds, k + 1)

\* strategy_decade()
strategy_decade(games) ==
    IF Len(games) < 8 THEN Ascending(Numbers)
    ELSE LET hits == decade_hits(games)
             is_cold(d) == d[3] < 28
             cold == SelectSeq(hits, is_cold)
             cold_decades == IF Len(cold) = 0 THEN <<min_by_second(hits)>> ELSE cold
             candidates == band_numbers(cold_decades, 1)
             key == [n \in Range(candidates) |-> <<ms_hits_in_n(games, n, 10), 0>>]
         IN Take(StableSort(candidates, key), 15)

\* a new draw becomes the most recent one
DecadePushDraw ==
    /\ component = "decade"
    /\ Len(hist) < MaxDecadeHist
    /\ \E d \in Catalogue : hist' = <<[numbers |-> d]>> \o hist
    /\ out' = Out("none", <<>>, 0)
    /\ UNCHANGED not_rules

\* strategy_decade() on the history
MultiDecade ==
    /\ component = "decade"
    /\ out.fn = "none"
    /\ \E picks \in {strategy_decade(hist)} : out' = Out("decade", picks, 1)
    /\ UNCHANGED hist
    /\ UNCHANGED not_rules

NextDecade ==
    \/ DecadePushDraw
    \/ MultiDecade

InitDecade ==
    /\ component = "decade"
    /\ ScraperInit
    /\ TrackerInit
    /\ RulesInit
    /\ SourceIdle
    /\ EntryIdle

SpecDecade == InitDecade /\ [][NextDecade]_vars

\* the hits of the last 8 draws that fall in the band start..end
BandTally(band) ==
    Cardinality({p \in (1..8) \X (band[1]..band[2]) : p[2] \in hist[p[1]].numbers})

Bands == {<<1, 20>>, <<21, 40>>, <<41, 60>>, <<61, 80>>}

\* C29: strategy_decade, with at least 8 draws and no band whose hit tally
\* over the last 8 draws is below 28, draws its candidates from the single
\* coldest band: every number returned lies in one band whose tally over the
\* last 8 draws is the smallest of the four.
C29_FallbackTakesColdestBand ==
    (/\ out.fn = "decade"
     /\ Len(hist) >= 8
     /\ \A band \in Bands : BandTally(band) >= 28)
    => \E band \in Bands :
          /\ \A other \in Bands : BandTally(band) <= BandTally(other)
          /\ Range(out.result) \subseteq band[1]..band[2]

\* ======================================================================
\* KenoMultiStrategy.strategy_deadzone (keno_multi_strategy.py)
\* ======================================================================
MaxDeadRecent == 3

\* n draws d in a row
Repeat(d, n) == [i \in 1..n |-> [numbers |-> d]]

\* The older part of a history: none, or 13 draws C before which came 11 or
\* 12 draws A (a number of A that C lacks is then hit 11 or 12 times in the
\* last 50 draws and not at all in the last 13).
DeadzoneTails ==
    {<<>>} \cup {Repeat(DrawC, 13) \o Repeat(DrawA, n) : n \in {11, 12}}

\* the histories strategy_deadzone is applied to, most recent draw first
DeadzoneHistories ==
    {[i \in 1..Len(recent) |-> [numbers |-> recent[i]]] \o tail :
        recent \in SeqsUpTo(Catalogue, MaxDeadRecent), tail \in DeadzoneTails}

\* nearby_hits: the offsets (dr, dc) whose cell number to_num(r + dr, c + dc)
\* is in 1..80 and in the last draw
nearby_hits(num, last_draw) ==
    Cardinality({d \in {-1, 0, 1} \X {-1, 0, 1} :
                    LET check == to_num(rc(num)[1] + d[1], rc(num)[2] + d[2])
                    IN 1 <= check /\ check <= 80 /\ check \in last_draw})

\* strategy_deadzone()
strategy_deadzone(games) ==
    IF Len(games) = 0 THEN Ascending(Numbers)
    ELSE LET recent_hits == UNION {games[i].numbers : i \in 1..Min(3, Len(games))}
             chronic_hot == {num \in Numbers : ms_hits_in_n(games, num, 50) >= 12}
             sleepers == Ascending({num \in Numbers :
                                       /\ num \notin recent_hits
                                       /\ num \notin chronic_hot
                                       /\ ms_hits_in_n(games, num, 15) = 0})
             zone_scores == [num \in Range(sleepers) |->
                                <<nearby_hits(num, games[1].numbers), 0>>]
         IN Take(StableSort(sleepers, zone_scores), 15)

\* strategy_deadzone() on the history
MultiDeadzone ==
    /\ component = "deadzone"
    /\ out.fn = "none"
    /\ \E picks \in {strategy_deadzone(hist)} : out' = Out("deadzone", picks, 1)
    /\ UNCHANGED hist
    /\ UNCHANGED not_rules

NextDeadzone == MultiDeadzone

InitDeadzone ==
    /\ component = "deadzone"
    /\ ScraperInit
    /\ TrackerInit
    /\ hist \in DeadzoneHistories
    /\ out = Out("none", <<>>, 0)
    /\ SourceIdle
    /\ EntryIdle

SpecDeadzone == InitDeadzone /\ [][NextDeadzone]_vars

\* the Moore neighbors of num, as get_neighbors returns them, that the most
\* recent draw hit
MooreHits(num) == Cardinality(ms_get_neighbors(num) \cap hist[1].numbers)

\* C30: on a history of at least one draw strategy_deadzone returns at most
\* 15 numbers, each with zero hits in the last 15 draws and fewer than 12
\* hits in the last 50, ordered ascending by the number of its Moore
\* neighbors (3x3 neighborhood, edges clipped) that were hit in the most
\* recent draw, the numbers of board columns 1 and 10 included.
C30_SleepersByMooreHits ==
    (out.fn = "deadzone" /\ Len(hist) >= 1) =>
        /\ Len(out.result) <= 15
        /\ \A i \in 1..Len(out.result) :
             /\ \A k \in 1..Min(15, Len(hist)) : out.result[i] \notin hist[k].numbers
             /\ Cardinality({k \in 1..Min(50, Len(hist)) :
                                out.result[i] \in hist[k].numbers}) < 12
        /\ \A i, j \in 1..Len(out.result) :
             i < j => MooreHits(out.result[i]) <= MooreHits(out.result[j])

====
